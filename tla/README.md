# A TLA+ model of Cogged

Cogged is a graph store with per-node permissions: a Go HTTP server in front of
Dgraph. Users own nodes, share them with other users, and query the graph. This
directory holds TLA+ modules of its core, TLC configurations that check them on
small instances, and TLAPS proofs for instances of any size.

Run from this directory: `tlc -config MCUsm.cfg MCUsm` (and the other pairs below),
`tlapm UsmProofs.tla` (and the other proof modules).

## 1. Inventory

| Component | Code | State it keeps | Operations |
|---|---|---|---|
| session manager | `state/user.go` | `TokenIds`, `SgiAllowlist` (in memory, one goroutine) | get/add/delete a token id; check/allow/revoke/list share groups |
| sharing and read access | `api/user.go`, `api/graph.go`, `models/node.go`, `responses/cogged.go` | `shr` edges (database) and `SgiAllowlist` | share, unshare, list shared nodes, query |
| request gate | `cmd/cogged/main.go` `ServeHTTP` | none | checks of token, allowlist, admin group; dispatch |
| login sessions | `api/auth.go`, `security/auth.go` | `TokenIds`; the tokens themselves are stateless | login, logout, refresh, check |
| clients | `clients/typescript`, `client/apiclient.go`, `docs/frontend-guide.md` | the token they hold; a cache and a watermark | the calls above; delta synchronisation |
| graph writes | `api/graph.go`, `api/user.go`, `requests`, `models/node.go`, `services/db.go` | nodes, edges and modification times (database); the signed data clients hold; through nested objects, accounts and `shr` edges as well | create, update, link, unlink |
| query compiler | `services/db.go`, `requests/query.go` | none | request to Dgraph query, page to answer |
| users and administration | `api/admin.go`, `models/user.go` | user nodes (database) | create and update users, look users up |
| start-up, configuration, crypto, logging | `cmd/cogged`, `services/config.go`, `services/dbsetup.go`, `security/crypto.go`, `log` | key, configuration | run once |

How they interact. Each HTTP request runs in a goroutine of its own. It passes the
gate, which asks the session manager whether the token id is live; the handler
unpacks the signed AuthzData of every node named (a call to the session manager per
node), reads or writes Dgraph (each `Mutate` or `Query` is one transaction), may
update the allowlist, and packs the response (again a call per node). Nothing holds
a lock across those steps.

What is hard here:

* two stores without a common transaction: the `shr` edges and the allowlist, the
  clients' tokens and `TokenIds`;
* values read in one step and used in a later one: the groups a query filters with,
  the nodes a listing grants, the token that passed the gate;
* ignored database errors, handlers that panic half way, a restart that forgets
  everything in memory;
* one goroutine everybody waits for, with some messages answered and some not;
* late, lost and overtaken messages around logout, refresh and expiry;
* writes authorised on data signed earlier, without a look at the node, and objects
  nested in them that are written as they came;
* modification times taken before the transaction that carries them;
* checks made on a request and a compiler that reads the request its own way.

What makes each part correct: the session manager never blocks, answers every call
and behaves as if each call were atomic; nobody is granted a group except through an
authorised share that goes back to an owner, and no response shows a node that is
not readable or was no longer granted; ended sessions stay ended, live ones are not
refused; a write touches only what its caller was entitled to and leaves owner, group
and permissions alone, a creation is complete, reachable and owned; a client that
synchronises misses nothing; what is compiled has been checked and pages are
complete; a user can log in, with the rights of its account. PROJECT.json lists the
hazards one by one. Some of this fails once certain inputs that the code accepts have come. The
models have these inputs, a history variable notes that one has come, the property is
stated until then, and section 3 lists each under "Where the code leaves its
documentation".

## 2. Modules

| Module | Models |
|---|---|
| `UsmVocabulary` | the requests of the session manager and their meaning |
| `UsmAbstract` | what the manager promises: two tables and atomic calls |
| `Usm` | the goroutine, the unbuffered channel, reply channels, callers |
| `Sharing` | share, unshare, shared listing and query, step by step |
| `Sessions` | the gate, login/logout/refresh, clients, clock, network, restart |
| `GraphWrites` | PUT node, PUT and PATCH nodes, PUT and PATCH edges, down to the transaction |
| `DeltaSync` | modification times and the clients that synchronise on them |
| `Queries` | a query from request to answer: checks, compiler, page, packing |
| `ClauseTrees` | the compiler's functions on nested clause trees, to compare `Queries` with |
| `Accounts` | creating and changing users, and logins that read their account |
| `UsmProofs`, `SharingProofs`, `SessionsProofs`, `GraphWritesProofs`, `DeltaSyncProofs`, `QueriesProofs`, `AccountsProofs` | theorems about the seven |
| `MCUsm`, `MCSharing`, `MCSharingSerial`, `MCSessions`, `MCGraphWrites`, `MCDeltaSync`, `MCQueries`, `MCAccounts` | instances for TLC |

How they fit together. `UsmAbstract` is what the other modules assume of the session
manager: one step per call. `Sharing` and `Sessions` are about its two tables.
`GraphWrites`, `Queries` and `Accounts` take from them only that grants come and go
(`Grant`, `Withdraw`, `Reshare`) and that sessions end (`Close`), at any time.
`DeltaSync` looks at the same write requests as `GraphWrites`, for their times alone.

**Usm.** `TokenIds` and `SgiAllowlist` are the two maps (a missing key is the empty
set; every case of the switch treats them alike). `srv` is the place of the
manager's goroutine: at the receive, in the switch with `msg`, or at the send
`msg.ReturnVal <- ...`. A caller goes `idle`, `send`, then `wait` when its function
made a reply channel and `sent` when it did not. `Send` and `Deliver` are the two
rendezvous. There is one action per case of the switch; a reply is sent on whatever
channel the message carries, so a reply on a nil channel would block, as in Go.
`Usm` implements `UsmAbstract` under a mapping that counts a message the manager has
taken as applied.

**Sharing.** `shr` is in the database, `SgiAllowlist` in the session manager, `job[p]`
is the place of a request goroutine. A call to the session manager is one step,
which `CallsAreAtomic` justifies. A share request authorises its nodes one at a
time (`UnpackNode`), refuses sys targets, commits the edges or fails without
noticing (`UpdateUserShareEdges`), then updates the allowlist of one target after
the other (`UpdateTarget`). A listing reads the nodes, grants their groups
(`Prime`) and packs; a query checks its roots, reads the allowed groups, queries,
and packs. `PermReadIsNil` says when the pointer `UpdateAllowListSharedSgis`
dereferences is nil; then the handler panics and net/http recovers. A node's owner,
group, permissions and e edges are constants of this module; `EnvelopesKept` of
`GraphWrites` and its hypothesis say which requests can change the first three.

Packing checks the nodes at the top of a response. With `select e` (constant `SelectE`) a
node that is kept brings the entries of its e list, which nothing checks (`EntryLists`):
`out` and `below` of a job are the two parts of its response.

Two kinds of input reach further than the documentation has it. A listing that carries
`similar` or `geo` takes the search branch of `QueryWithOptions`, which does not look at
the root ids the handler set (`ListSearch`). A PATCH nodes whose nested own object has a
`shr` list adds `shr` edges (`PatchShr`). `strays` counts them, `MaxStrays` and `StrayLists`
bound them in an instance, and `AsDocumented` says that none has come so far. The histories
`reached` and `rooted` record authorised share requests and nothing else: after either of
the two inputs there are grants without an origin, and the three properties about origins
say nothing any more.

**Sessions.** A request occupies a slot from `Send` to `Deliver` or `Lose`, so
requests are delayed, reordered and lost freely. `Receive` is ServeHTTP up to the
timestamp check, `DropExpired` the deletion of an expired token's id,
`CheckTokenId` the id check and the admin check; then the handler's action. `Send`
attaches the token the client holds to every request, a login too, as both clients
do. `Deliver` is the TypeScript client at the answer, `DeliverGo` the Go client, which
forgets its token on logout whatever the answer and does not keep a refreshed one.
`Restart` empties `TokenIds` and keeps or redraws the key. `ended` (what ended a
session) and `issued` (when its last token was issued) are history. The admin
group, clientconfig and one stand-in for all other authenticated endpoints are
routes.

**GraphWrites.** `env[n]` is a node's envelope: owner, group, permissions. `sent[u]` is
the authorisation data user `u` was ever sent, each a uid with the envelope of that
time; every request names nodes by members of it, so stale data is used freely.
`PutUserNode`, `PutNodes`, `PatchNodes` and `Edges` are the handlers up to the
mutation: binding, the checks on the signed envelope, and the batch they build. Edge
requests check their strings one at a time (`UnpackAD`). `UpsertNodes`,
`UpsertUserNode` and `UpdateEdges` commit and report it, commit without reporting it,
or do neither; `Resolve` is how Dgraph turns placeholders into uids, including the
ones no node of the list defines. `Reply` signs `created_nodes`. A permission that is
absent and one that is false are one value: every check treats them alike, and PATCH
nodes stores absent ones as false.

PATCH nodes hands each listed node to the database with the objects nested in it. An
object of `Nested` is an entry of the listed node's e list, of the e list of such an
entry (`below`), or of the `nodes` or `shr` list of an own object; it names a node, a
placeholder or a real uid that is not assigned, with the envelope fields it carries.
Only the listed node is verified, and only the uids of its own e entries are looked at
(`checkUpsertNodeList`). `given[n]` is the envelope a node came into being with; later
writes do not touch it. `carried` is the nested objects that have come so far, and
`NestedLists` bounds those of an instance. `BareEntries` says that all of `carried` were
entries of e lists, existing nodes or placeholders, without fields; three of the
properties are stated as long as it holds. `PostNodes` sends a user the signed data of all
it may read and, through `select e`, of the nodes one edge further.

**DeltaSync.** `m` and `ver` are in the database: the modification time of a node and
a number for its contents. A writer takes its stamp at the beginning (`BeginUpsert`,
`BeginEdges`) and commits later (`Mutate`); a removal of edges has a second
transaction for the times (`MutateTimes`); either may fail. A client runs the guide's
`syncScope`: `Query` takes a snapshot, `Build` makes the answer of it (the server's time is
read here, and packing may drop what the client lost the right to read), `Receive` takes
the highest `m` received as the new watermark (`Watermark`), or the answer is lost (`Lose`).
`scope[c]` is what the query's traversal reaches from the client's root, may be read by it
and has the type it asks for. Every mutation may change it, except that removing edges only
makes it smaller; `Rescope` is a share, its withdrawal or a listing that primes, which
change it without writing a node. `hidden[c]` is history: the nodes whose last change
carried no `m`, or one no later than a time committed or handed out before, and those that
came into the scope without a later one.

**Queries.** A request is a record of the blocks that matter to control: similar, geo,
root query, root ids, filter tree, order, page. `PostNodes` binds it and reads the
groups, `Compile` is `checkQueryFields` and `constructQueryStringAndAddVars`, `RunQuery`
takes a page (first, offset, after) of any set of nodes the root and filter may select,
`QueryFails` is an error of the database, `Answer` primes the allowlist for a shared
listing and packs. The order of an answer is that of the uids, or of `Rank` (in either
direction) when the request asks for one (`Place`); `after` is a uid in either case.
Values are strings with their `TrimSpace` given as a function.

A clause tree is the sequence of its clauses, each before those in its lists, with
the place of the clause it belongs to; a compiled filter is the set of its leaves,
each with its place in the order of compilation, on which the last binding of a query
variable depends. What the code does by recursion (visit every clause, follow the lists
that are not hidden, collect the leaves) is then a quantifier or a function over places.
`ClauseTrees` keeps the recursive functions as the code has them, on nested records, and
`MCQueries` has TLC compare the two on a set of trees before it starts (`TreesAgree`).

**Accounts.** `users` in order of creation, `login[p]` between reading the account and
the end of the slow hash, `session` with the role and password it was opened with.
`addNewUser` is the `-adduser` flag, `PutUser` and `PatchUser` the admin endpoints, which
need a session with the sys role. `PatchOwn` and `OwnStranger` are the account fields that
come with the own object of a PATCH graph/nodes, from any session; `PatchStranger` is a
PATCH users for a uid that is no user. `era` counts the settings of an account, by whatever
route; a session notes the one it saw. `lastPw` is the password last set by `-adduser` or an
admin route, and `altered` the users whose `ph` was since emptied, or written through an own
object.

The definitions introduced as variants (`SgiRevokeAll`, `MayReadByGroup`,
`PrepareAbsent` and so on) are not used by the specifications. Each is a slip
the code could contain, and PROJECT.json says which property notices it when it
takes the place of the definition after it.

## 3. Runs

| Run | Instance | Shows |
|---|---|---|
| `usm` | 2 callers, 1 user and the empty uid, 1 token id, 2 groups; 148,376 states | replies are awaited, calls return, calls are atomic |
| `sharing` | 2 requests at a time, owner and two users, 2 nodes of one group (one readable and shareable, one neither) and an edge between them, mutations may fail, `select e`, 1 search in a listing or `shr` list in a PATCH nodes; 3.4 million states | origin and root of every grant and nodes of responses readable until the stray input; no node served from a stale grant |
| `sharing_serial` | 1 request at a time, no failures, a sys user, 3 nodes in 2 groups, 1 restart; 190,571 states | allowlist backed by edges when idle; priming recovers lost grants |
| `sessions` | 1 client, 2 requests at a time, 2 logins, 2 ticks, expiry after 2, 1 restart; 4.7 million states | ended sessions stay ended, idle ones expire, no unjustified refusal, handlers know their user |
| `graph_writes` | 2 requests at a time, 3 in all, 2 users, a grant that comes and goes, room for 3 nodes, 2 groups; lists with a chain, a cycle, a duplicate and an undefined placeholder; nested objects of every kind; 533,126 states | complete and reachable creations; with bare e entries, envelopes kept, every node owned, writes authorised |
| `delta_sync` | 2 nodes, 2 writers, 1 client, 2 writes, clock to 3, scope changing freely; 254,644 states | what a watermark can skip, and that all else arrives |
| `queries` | 3 nodes in 2 groups, 1 request at a time among some 1,500 (all pairs of 30 value leaves, nested trees, search blocks, pages with cursors, offsets and orders), shares changing meanwhile; 456,692 states | limits clamped, leaves keep their values, compiled fields were checked, pages complete |
| `accounts` | 2 users, 3 names (one reserved), 3 passwords (one too short), 1 login at a time, 2 sessions, 1 change of an account by whatever route; 419,245 states | sessions agree with accounts; users can log in |
| `sharing_race` | as `sharing`, all readable, no failures | violation, see below |
| `listing_without_r` | 1 request at a time, a node without `r` | violation |
| `old_token`, `login_with_token` | as `sessions`, no restart | violations |

Bounds. Two requests at a time show every pairwise overlap; two users other than the
owner are needed for sharing on; one group with a readable and an unreadable node
separates the two access conditions; two groups appear where revoking one must leave the
other. Two logins give a session beside another, and TokenExpiry 2 with two ticks gives
a refreshed token that outlives the old one. Three write requests give a node, a second
one beside or below it, and a request that overlaps with either; three nodes leave room
for a PUT nodes of two under a parent, and two groups for a generated one next to the
parent's. Two writers and three ticks give a stamp that is overtaken by a later one and
a watermark between them; one client is enough, for clients do not meet; the scope
changes at any time besides. One stray input shows what it does and leaves the
behaviours without it, which are a part of the same run. Two users and one change of an
account give a shared name, a demoted administrator or a password changed during a
login. What the bounds leave out (longer chains of sharing, more clients, more nodes,
later expiry) is covered by the theorems, which have none of them: those about `Queries`
are about every request, with clause trees of any size. `PatchNodes` lists one node and
`Edges` has one subject in the runs. Symmetry is used for request slots, session ids and
the users of `sharing` other than the owner, in runs without temporal properties.
Deadlock is checked everywhere but in the runs `graph_writes` and `accounts`, whose
bounded requests may all be spent with nothing left to do.

Fairness. `Usm`: the Go scheduler runs every goroutine that can run (weak fairness), and
senders blocked on a channel queue in order, so a sender the manager is ready for again
and again is served (strong fairness on `Send`). Making another call is never fair.
`Sharing`: a request that has begun is carried on; users keep listing what is shared
with them without a filter, as `docs/frontend-guide.md` (section 7) asks of every
client. Only `PrimingRecovers` uses it. `DeltaSync`: a client keeps polling (weak
fairness on `Query`), and not every request and answer is lost (strong fairness on
`Build` and `Receive`); nothing is assumed of writers, who may be stuck before their
commit forever. `Sessions`, `GraphWrites`, `Queries` and `Accounts` need none.

What is easily got wrong about some of the properties:

* `ResponsesReadable` is about the nodes at the top of a response and says of the e
  entries only that each is one edge from such a node. `NoStaleGrantServed` is about the
  top as well.
* `GrantsHaveOrigin`, `GrantsRootedInOwner` and the first part of `ResponsesReadable` hold
  while `AsDocumented` does; `EnvelopesKept`, `NoOrphans` and `WritesAuthorised` while
  `BareEntries` does. Both are states, not assumptions: once false they stay false.
* `WritesAuthorised` is about grants *at some time since the request began*: a grant
  withdrawn during a request may still be used by it, an older one never. What a caller is
  entitled to is measured by the envelope a node was created with. The edges that PATCH
  nodes adds are outside it.
* `EnvelopesKept` is exact: the envelope a node has is the one it was created with, even
  when old signed data is written back.
* `NewNodesReachable` needs the new nodes to be acyclic.
* `NothingElseSkipped` and `ChangesArrive` speak of every change that is not in
  `hidden`. What puts a node there is what a reader of the guide should know of:
  overtaken stamps, equal stamps, edges removed (until the second transaction), fields of
  nested e entries, a first synchronisation that returns nothing (its time may be later
  than stamps still to be committed), and coming into the scope by a link or a grant.
* `PagesArriveWhole` and `ShortPageMeansEnd` compare the read filter in the database
  with the one applied when packing.
* `SessionsMatchAccounts`: sessions from before a change keep their role; logins that
  read the account after it never get the old one.
* `EveryUserCanLogIn` is about the oldest user of a name; a later one of the same name
  cannot log in, and must not take the older one's logins. Users in `altered` are
  outside it.

### Where the code leaves its documentation

Four disagreements are runs that end in a violation:

* `sharing_race`: share commits its edges; unshare of the same node commits and
  revokes; share's grant comes last. The group stays granted with no `shr` edge
  behind it, against `docs/about.md:288-292`. `GrantsBackedOneAtATime` proves that it
  takes an overlap or a failure: one request at a time, with mutations that succeed,
  keeps the two stores in step (its hypotheses are below).
* `listing_without_r`: `*node.PermRead` at `api/user.go:41` is nil for a node stored
  without `r`. Sharing one makes the recipient's listing panic, although the comment
  at line 79 says the permission is implied. `ListingsAnsweredWithR`: with `r` stored on
  every node, true or false, no listing panics.
* `old_token`: presenting an expired token deletes the token id, which refreshed
  tokens share. A delayed request with the old token ends the refreshed session,
  against `docs/frontend-guide.md:94-95`. `UnexpiredAcceptedWithoutRefresh`: where
  nobody refreshes, the promise holds.
* `login_with_token`: the gate looks at the token before it looks at the allowlist,
  and clients attach it to a login, so a client with the token of a dead session
  cannot log in until the token is cleared. The Go client means to leave it out but
  compares `POST auth/login` with `POST /auth/login`. `BareLoginsAccepted`: if logins are
  sent without a token, as it means to, none is refused at the gate.

The others are in the models too, as steps that a property names as its exception or
stops at; without the exception the property is false.

* A listing that searches. The comment at `api/user.go:95-96` says that the traversals of
  POST nodes/own and nodes/shared "are already scoped to the caller, so no read-authz filter
  is applied". With `similar` or `geo` in the request they are not, and nodes/shared grants
  its caller the groups of all readable nodes the search finds, against
  `docs/about.md:375, 383`. In the model: `ListSearch`; `GrantsHaveOrigin` and
  `GrantsRootedInOwner` fail without `AsDocumented`.
* `own.shr` in PATCH nodes. `models.AuthzFieldsAreEqual` compares of the own object the uid
  alone (`models/node.go:319`), and `services.UpsertNodes` writes all of it. A `shr` list in
  it becomes share edges, which need `s` according to `docs/about.md:238`; the next listing
  grants their groups. In the model: `PatchShr`, with the same two properties.
* e entries of responses. With `select e` a response holds neighbours that the caller may
  not read, with owner, group and permissions, signed for the caller
  (`models/node.go:274-278`), against `docs/about.md:288-292`. In the model: `below`;
  `ResponsesReadable` does not hold of it.
* Fields of nested objects. What is nested in a node of PATCH nodes (in `e`, `own.nodes`,
  `own.shr`) is written with the owner, group and permissions it carries, to whatever node it
  names, against `docs/about.md:337-347, 363-367`. In the model: `PatchBatch`;
  `EnvelopesKept` fails without `BareEntries`.
* Orphans. `checkUpsertNodeList` rejects placeholders that nothing defines, since "the
  caller could never read it back" (`services/db.go:978-981`). It does not look below the
  entries of e lists nor into own objects, and takes any real uid: nodes without an owner
  are made there. In the model: `Undefined`; `NoOrphans` fails without `BareEntries`.
* Edges of PATCH nodes. The e entries become edges without `o` on the node and `i` on the
  entry, against `docs/about.md:238`. In the model: `PatchBatch`; `WritesAuthorised` fails
  for the kind `patch`.
* Cycles of new nodes. `openapi3.yaml:217` says that the new nodes are "a subgraph linked by
  an edge from this root node". New nodes in a cycle beside others that are not get no edge
  from it. In the model: `ParentLinks`; `NewNodesReachable` fails without `Acyclic`.
* Nodes that come into a scope. A link or a grant brings nodes into what a client's query
  reaches with the `m` they have, and delta queries never return them when the watermark has
  passed it, against `docs/frontend-guide.md:522-524, 547`. In the model: `Rescope` and the
  scope of `Mutate`; `NothingElseSkipped` and `ChangesArrive` fail without `hidden`.
* Overtaken writes. The stamp is taken before the transaction (`services/db.go:1063`), so a
  write can commit behind a watermark taken from the data, against lines 563-564 of the
  guide. In the model: `Change`, with the same two properties.
* Empty passwords. The comment at `api/admin.go:64` says that a user with an empty password
  is left unchanged. The empty `ph` is present and is written, and no password verifies
  until the next PATCH. In the model: `PrepareForUpdate`; `EveryUserCanLogIn` fails without
  `altered`.
* Account fields in own objects. un, ph and role in the own object of a PATCH graph/nodes
  are written to the account it names, from any session: a user without the sys role can
  change passwords and make a superuser, though `openapi3.yaml:45` asks for the superuser
  role. In the model: `PatchOwn`; `EveryUserCanLogIn` fails without `altered`.
* Demoted administrators. The admin routes look at the role in the token, which a refresh
  copies: a demoted administrator remains one for as long as it refreshes
  (`openapi3.yaml:26, 45`). In the model: `IsAdmin`; `SessionsMatchAccounts` fails without
  the era.
* Short pages. Line 603 of the guide says that a short page means the end of the results. A
  listing of shared nodes that holds one whose `r` is false, and a listing with `similar` or
  `geo`, are thinned out after the page was cut. A node without an `r` makes the listing of
  shared nodes panic instead. In the model: `Answer`; `PagesArriveWhole` names the cases.
* Query variables. A text search and a comparison with the same string in one request share
  a query variable, and the later rewriting counts for both. In the model: `VarName`;
  `LeavesKeepTheirValues` exempts the clash.
* `docs/frontend-guide.md:75-92` advises one refresh and retry after a 401.
  `RefusedOnlyWhenOver` and `SessionsStayOver` together say that the refresh is refused as
  well; only a new login helps.

## 4. Proofs

Each proof module EXTENDS its specification. The constants' assumptions
(`NamesDistinct`, `ConstantsOK` of each module, `SessionConstants`) are all they use, but
for four theorems that name a hypothesis of their own: `GrantsBackedOneAtATime`,
`ListingsAnsweredWithR`, `UnexpiredAcceptedWithoutRefresh` and `BareLoginsAccepted`. Where a
property is stated as long as `AsDocumented` or `BareEntries` holds, so is its theorem: it
says nothing of behaviours after the input that makes them false, which section 3 lists.

* `UsmProofs`: `TypeCorrect`, `NoReplyIsLost` and the refinement `CallsAreAtomic`.
  The invariant adds to the two properties that the manager's channel matches the
  operation it is in (`ChannelMatchesOperation`): without it nothing relates the
  case of the switch that replies to the function that made a channel. Every step
  maps to a step of `UsmAbstract` or to a stutter; the step that takes a message is
  the one where the call takes effect.
* `SharingProofs`: types and the four properties of the run `sharing`. What has to be
  added is what each request in progress knows: what it has packed was granted since it
  read (`JobServes`); and, while `AsDocumented` holds, the nodes it names or has read
  were reached by the users it will update, and their groups are rooted (`JobKnows`),
  and the `shr` edges are reached. Grants then keep their origin whatever else happens
  in between, because origins are never withdrawn.

  `GrantsBackedOneAtATime` is `QuiescentGrantsBacked` under `OneAtATime`: one request at
  a time, mutations that succeed, no search-shaped listing and no `shr` list in PATCH
  nodes, and no request that names readable and unreadable nodes together. Each
  hypothesis is needed: an overlap is the run `sharing_race`; a failed share mutation
  grants all the same; a search grants what no edge reaches; and an unshare that panics
  on an unreadable node has removed edges whose grants it never revokes.
  `MCSharingSerial` assumes `OneAtATime`, so that the instance TLC checks satisfies
  them. In the middle of a request the property is false; what is inductive is that a
  grant is backed, or about to be revoked by the unshare in progress
  (`GrantsBackedOrRevoked`), and that a share or listing in progress names nodes that
  are behind edges by now (`JobBacked`). `ListingsAnsweredWithR` needs no strengthening:
  it follows the kind of each request to the dereference.
* `SessionsProofs`: types, and the four properties of the run `sessions`. A token
  in circulation is tied to the table or to the end of its session (`TokenOK`), a
  request past a check remembers what the check established (`JobOK`), and the
  table and the history agree (`TablesOK`). The step a test would miss is `Refresh`
  after `Logout`: it issues a token whose session is over, and `TokenOK` allows
  that because `CheckTokenId` will refuse it. `UnexpiredAcceptedWithoutRefresh` and
  `BareLoginsAccepted` restrict the steps instead of the constants
  (`Spec /\ [][NoRefresh]_vars`, `Spec /\ [][LoginsSentBare]_vars`): without a refresh every
  token in circulation was issued when its session was (`OneTokenInv`), so that an
  expired one takes no other down with it.
* `GraphWritesProofs`: types, `CreationsComplete` and `NewNodesReachable` for every
  input, `EnvelopesKept`, `NoOrphans` and `WritesAuthorised` with their hypothesis. The
  invariant says what a signature is worth: as long as `BareEntries` holds every
  envelope in `sent` is the one its node was created with (`SentOK`), and edges join
  nodes that exist (`EdgesIn`), so that `PostNodes` signs nothing else. A request in
  progress then knows, by kind (`JobOK`), that its caller was entitled to what its batch
  touches, by the envelope in `given` and a grant in `fresh`, or that the check is still
  to come; `fresh` holds every grant in force (`FreshOK`) and only grows while the
  request runs, and `given` changes only where nodes are minted, so withdrawals and
  other requests cannot take it back (`JobGrows`). `carried` only grows, so a request
  that brings the hypothesis down weakens what the others are said to know and nothing
  has to be shown for them. A success about to be reported knows the uids its nodes were
  minted under (`ReplyOK`). Reachability is an argument about one batch: a set closed
  under the links and missing new nodes would leave a set of them, each linked to only
  from the set itself, which is a cycle.
* `DeltaSyncProofs`: types and `NothingElseSkipped`. What is stored or read by a query
  under way has an `m` no later than `top` (`TimesOK`); a scope holds only nodes that
  exist (`ScopeOK`); a client without a query under way has no answer pending
  (`IdleOK`); and a node whose version in an answer under way is out of date is later
  than all that answer brings, or is hidden (`Ahead`). The step that needs care is
  `Build` with an empty first answer, whose time is behind everything in the scope by
  then.
* `QueriesProofs`: types with the clamped limits, and the four properties of the run
  `queries`, for every request and tree. The invariant follows the request: a listing has
  no root query (`BoundOK`); unless the allowlist has `changed` it is the one that was
  read (`GroupsOK`); a query past the compiler passed the checks, and its leaves, filter
  and root are those of the request (`CompiledOK`); the page is the page of what was
  admitted (`PageOK`); the answer is what may be read of it (`OutOK`). `ValuesKept` rests on
  `QueryVarValue` (the variable of a leaf has the value of some leaf of the same name:
  the last binding exists, by `GreatestNumber`), `FieldsChecked` on the fact that `p` and
  `g` are rendered only for fields that the check folds to the same name,
  `ShortPageIsLast` on `ShortPage` (a page with fewer nodes than asked for misses nothing
  after the cursor and the offset, in whatever order the answer has: `Places` says that
  the order numbers the nodes, `FirstAndLast` that a set of them has a first and a last).
* `AccountsProofs`: types, `SessionsMatchAccounts`, `EveryUserCanLogIn`. A login between
  its two steps agrees with the account of the era it noted (`LoginOK`); what is
  stored is the last password unless the user is in `altered` (`PasswordOK`).

Only model-checked: the three liveness properties (`EveryCallReturns`, `PrimingRecovers`,
`ChangesArrive`), since the prover has no liveness under fairness and no `ENABLED`; and that
the flat clause trees agree with the recursive functions (`TreesAgree`), which would be an
induction over data. Every other property of a passing run is a theorem.

## 5. Not modelled, and what could follow

Not modelled, because nothing changes and no order matters: the parsing of the route
with its 404 and 415 answers (a path of two parts is out of range at
`cmd/cogged/main.go:139`: one index, better served by a unit test), the GET lookups of
users and of `sharedwith`, the redaction of `p`, health, logging, the typed client
wrappers. Out of reach: cryptography (tokens and AuthzData are records that are not
forged), JSON and reflection, Dgraph itself (a transaction is one step, a query sees a
snapshot and returns any set its filter admits), the arithmetic of geometry. Start-up
reads files and creates the schema, sequentially; only what a restart forgets is
modelled.

Assumed: token ids are distinct although they are three random bytes
(`api/auth.go:43`), and the table of token ids has room, although the ids of abandoned
sessions stay in it (`state/user.go:91`): neither has a bound in the code that a
property could state.

What could follow: a PATCH nodes that lists several nodes, whose entries may name each
other; a composition of `Sharing` and `GraphWrites` over one database, in place of the
free `Grant` and `Withdraw`.
