------------------------------ MODULE Sessions -------------------------------
(***************************************************************************)
(* Login sessions: the gate every request passes in cmd/cogged/main.go     *)
(* (ServeHTTP), the handlers of api/auth.go, and the clients that keep a   *)
(* bearer token (clients/typescript/src/client.ts, client/apiclient.go).   *)
(* A token carries a user, a token id and the time it was issued, signed   *)
(* with the server's key.  Its session lives only in the session manager's *)
(* table TokenIds: login adds the token id, refresh issues a younger token *)
(* with the same id, logout deletes the id, and so does presenting a token *)
(* that has expired.                                                       *)
(*                                                                         *)
(* Requests and replies travel over a network that delays, reorders and    *)
(* loses them; the server handles requests concurrently.  A call to the    *)
(* session manager is one step (theorem CallsAreAtomic of UsmProofs).      *)
(* Token ids are unique: newTokenId draws three random bytes, and a draw   *)
(* that repeats an id of the same user is left out.  Signatures are not    *)
(* forged.                                                                 *)
(***************************************************************************)
EXTENDS Naturals

CONSTANTS
  Slots,        \* bound: requests in progress at the same time
  Clients,      \* client objects, each holding at most one token
  NoClient,     \* the client of a free slot
  User,         \* client -> the user that logs in with it
  Admins,       \* the users whose role is sys
  NoToken,      \* no bearer token
  TokenExpiry,  \* auth.tokenexpiry, in ticks of the clock
  MaxTime,      \* bound: the last tick
  MaxLogins,    \* bound: how many token ids are handed out
  MaxRestarts   \* bound: how often the server is restarted

Users == {User[c] : c \in Clients}
Tids  == 1 .. MaxLogins

(* sec.UserAuthData as ConstructToken writes it, with the key that signs.  *)
Token == [uid : Users, tid : Tids, ts : 0 .. MaxTime, key : 0 .. MaxRestarts]

ASSUME SessionConstants ==
  /\ NoClient \notin Clients
  /\ NoToken \notin Token
  /\ TokenExpiry \in Nat \ {0}   \* getTokenExpiry replaces a value <= 0 by 600
  /\ MaxTime \in Nat /\ MaxLogins \in Nat /\ MaxRestarts \in Nat

VARIABLES
  now,        \* the server's clock
  SecretKey,  \* which key the server signs with: 0, or the restart that drew it
  TokenIds,   \* session manager: user -> its live token ids
  logins,     \* how many token ids have been handed out
  restarts,   \* how often the server has restarted
  held,       \* client -> the token it keeps
  job,        \* the request in each slot
  ended,      \* history: token id -> what first ended its session, or "no"
  issued      \* history: token id -> when its last token was issued

vars == <<now, SecretKey, TokenIds, logins, restarts, held, job, ended, issued>>

server  == <<now, SecretKey, TokenIds, logins, restarts>>
history == <<ended, issued>>

(* The sessions ended by a logout, by an expired token or by a restart.    *)
over == {t \in DOMAIN ended : ended[t] # "no"}

(* The endpoints that differ here.  "data" stands for every other endpoint *)
(* that needs a user.                                                      *)
Routes == {"login", "clientconfig", "logout", "refresh", "data", "admin"}

(* A variant open to refresh as well.                                      *)
AllowListWithRefresh == {"login", "clientconfig", "refresh"}

(* CreateDefaultHandler: the paths open to requests without a token.  The  *)
(* health endpoint behaves as clientconfig.                                *)
AllowList == {"login", "clientconfig"}

(* A request: where it is, who sent it to which route with which token,    *)
(* the user the gate made out (a token or none), and the reply.  wasOver   *)
(* and wasIdle note for the observer whether, when it was sent, the        *)
(* session was over, and whether no token of it had been issued for        *)
(* TokenExpiry.                                                            *)
Job == [pc : {"free", "sent", "expired", "checkid", "handle", "reply"},
        client : Clients \union {NoClient}, route : Routes,
        token : Token \union {NoToken}, uad : Token \union {NoToken},
        status : {"none", "ok", "unauthorized", "forbidden", "denied"},
        new : Token \union {NoToken},
        wasOver : BOOLEAN, wasIdle : BOOLEAN]

FreeSlot == [pc |-> "free", client |-> NoClient, route |-> "data", token |-> NoToken,
             uad |-> NoToken, status |-> "none", new |-> NoToken,
             wasOver |-> FALSE, wasIdle |-> FALSE]

Init ==
  /\ now = 0
  /\ SecretKey = 0
  /\ TokenIds = [u \in Users |-> {}]
  /\ logins = 0
  /\ restarts = 0
  /\ held = [c \in Clients |-> NoToken]
  /\ job = [p \in Slots |-> FreeSlot]
  /\ ended = [t \in Tids |-> "no"]
  /\ issued = [t \in Tids |-> 0]

SetJob(p, j) == job' = [job EXCEPT ![p] = j]

EndSession(t, why) == ended' = [ended EXCEPT ![t] = IF @ = "no" THEN why ELSE @]

-----------------------------------------------------------------------------
(* The clients.                                                            *)

(* CoggedClient.request: every request carries the token the client holds, *)
(* a login too.  (The Go client means to leave it out of a login, but      *)
(* looks up "POST auth/login" among keys written "POST /auth/login".)      *)
Send(p, c, route) ==
  /\ job[p].pc = "free"
  /\ LET tok == held[c] IN
     SetJob(p, [FreeSlot EXCEPT
       !.pc = "sent", !.client = c, !.route = route, !.token = tok,
       !.wasOver = tok # NoToken /\ tok.tid \in over,
       !.wasIdle = tok # NoToken /\ now >= issued[tok.tid] + TokenExpiry])
  /\ UNCHANGED <<server, held, history>>

(* A reply arrives.  login and refresh keep the token they were given and  *)
(* logout forgets the one held; a reply that is not ok throws before that. *)
Deliver(p) ==
  /\ job[p].pc = "reply"
  /\ LET j == job[p] IN
     held' = IF j.status = "ok" /\ j.route \in {"login", "refresh"}
             THEN [held EXCEPT ![j.client] = j.new]
             ELSE IF j.status = "ok" /\ j.route = "logout"
             THEN [held EXCEPT ![j.client] = NoToken]
             ELSE held
  /\ SetJob(p, FreeSlot)
  /\ UNCHANGED <<server, history>>

(* The Go client: Login keeps the token of an answer it can parse, Logout  *)
(* forgets the one held whatever the answer, and AuthRefreshGet hands the  *)
(* new token to its caller without keeping it.                             *)
DeliverGo(p) ==
  /\ job[p].pc = "reply"
  /\ LET j == job[p] IN
     held' = IF j.status = "ok" /\ j.route = "login" THEN [held EXCEPT ![j.client] = j.new]
             ELSE IF j.route = "logout" THEN [held EXCEPT ![j.client] = NoToken]
             ELSE held
  /\ SetJob(p, FreeSlot)
  /\ UNCHANGED <<server, history>>

(* A request or a reply is lost: fetch rejects and the client changes      *)
(* nothing.                                                                *)
Lose(p) ==
  /\ job[p].pc \in {"sent", "reply"}
  /\ SetJob(p, FreeSlot)
  /\ UNCHANGED <<server, held, history>>

-----------------------------------------------------------------------------
(* ServeHTTP up to the dispatch.                                           *)

(* The reply leaves.  What the server knew of the request is gone; the     *)
(* token it came with is kept for the observer of refusals.                *)
Reply(p, status, tok) ==
  SetJob(p, [FreeSlot EXCEPT !.pc = "reply", !.client = job[p].client, !.route = job[p].route,
                             !.status = status, !.new = tok,
                             !.token = IF status = "unauthorized" THEN job[p].token ELSE NoToken])

Refuse(p, status) == Reply(p, status, NoToken)

(* A variant that is off by one.                                           *)
checkTimestampInclusive(ts) == now <= ts + TokenExpiry

(* checkTimestamp: nowEpoch-tokenEpoch < TokenExpiry.                      *)
checkTimestamp(ts) == now < ts + TokenExpiry

(* UADFromToken and the timestamp check.  No token, or one whose MAC is    *)
(* wrong, leaves userAuthData nil: the request passes if its path is on    *)
(* the allowlist.  A token that verifies is examined on every path.        *)
Receive(p) ==
  /\ job[p].pc = "sent"
  /\ LET j == job[p] IN
     IF j.token = NoToken \/ j.token.key # SecretKey
     THEN IF j.route \in AllowList THEN SetJob(p, [j EXCEPT !.pc = "handle"])
                                   ELSE Refuse(p, "unauthorized")
     ELSE SetJob(p, [j EXCEPT !.pc = IF checkTimestamp(j.token.ts) THEN "checkid" ELSE "expired",
                              !.uad = j.token])
  /\ UNCHANGED <<server, held, history>>

(* "token expired": UsmDeleteTokenId, and then the refusal.                *)
DropExpired(p) ==
  /\ job[p].pc = "expired"
  /\ LET tok == job[p].uad IN
     /\ TokenIds' = [TokenIds EXCEPT ![tok.uid] = @ \ {tok.tid}]
     /\ EndSession(tok.tid, "expired")
  /\ Refuse(p, "unauthorized")
  /\ UNCHANGED <<now, SecretKey, logins, restarts, held, issued>>

(* checkTokenId, and then the check of the admin route group.              *)
CheckTokenId(p) ==
  /\ job[p].pc = "checkid"
  /\ LET j == job[p] IN
     IF j.uad.tid \notin TokenIds[j.uad.uid] THEN Refuse(p, "unauthorized")
     ELSE IF j.route = "admin" /\ j.uad.uid \notin Admins THEN Refuse(p, "forbidden")
     ELSE SetJob(p, [j EXCEPT !.pc = "handle"])
  /\ UNCHANGED <<server, held, history>>

-----------------------------------------------------------------------------
(* AuthAPI.HandleRequest.                                                  *)

Handling(p, route) == job[p].pc = "handle" /\ job[p].route = route

Answer(p, tok) == Reply(p, "ok", tok)

(* A variant that dates the token with its end.                            *)
tokenResponseExpiring(u, t) ==
  [uid |-> u, tid |-> t, ts |-> now + TokenExpiry, key |-> SecretKey]

(* tokenResponse: a token for the id, dated now.                           *)
tokenResponse(u, t) == [uid |-> u, tid |-> t, ts |-> now, key |-> SecretKey]

(* A variant that keeps one session per user.                              *)
LoginReplacing(p) ==
  /\ Handling(p, "login")
  /\ LET u == User[job[p].client]
         t == logins + 1
     IN /\ logins < MaxLogins
        /\ logins' = t
        /\ TokenIds' = [TokenIds EXCEPT ![u] = {t}]
        /\ issued' = [issued EXCEPT ![t] = now]
        /\ Answer(p, tokenResponse(u, t))
  /\ UNCHANGED <<now, SecretKey, restarts, held, ended>>

(* POST login: a fresh token id is added to those the user has, and a      *)
(* token for it is issued; wrong credentials or a failed QueryUser are     *)
(* answered with "invalid login".                                          *)
Login(p) ==
  /\ Handling(p, "login")
  /\ \/ LET u == User[job[p].client]
            t == logins + 1
        IN /\ logins < MaxLogins
           /\ logins' = t
           /\ TokenIds' = [TokenIds EXCEPT ![u] = @ \union {t}]
           /\ issued' = [issued EXCEPT ![t] = now]
           /\ Answer(p, tokenResponse(u, t))
     \/ Refuse(p, "denied") /\ UNCHANGED <<logins, TokenIds, issued>>
  /\ UNCHANGED <<now, SecretKey, restarts, held, ended>>

(* POST logout: UsmDeleteTokenId for the token presented.                  *)
Logout(p) ==
  /\ Handling(p, "logout")
  /\ LET tok == job[p].uad IN
     /\ TokenIds' = [TokenIds EXCEPT ![tok.uid] = @ \ {tok.tid}]
     /\ EndSession(tok.tid, "logout")
  /\ Answer(p, NoToken)
  /\ UNCHANGED <<now, SecretKey, logins, restarts, held, issued>>

(* A variant in which a refresh registers the id again.                    *)
RefreshRegistering(p) ==
  /\ Handling(p, "refresh")
  /\ LET tok == job[p].uad IN
     /\ Answer(p, tokenResponse(tok.uid, tok.tid))
     /\ issued' = [issued EXCEPT ![tok.tid] = now]
     /\ TokenIds' = [TokenIds EXCEPT ![tok.uid] = @ \union {tok.tid}]
  /\ UNCHANGED <<now, SecretKey, logins, restarts, held, ended>>

(* GET refresh: a younger token with the same id; TokenIds is not looked   *)
(* at again.                                                               *)
Refresh(p) ==
  /\ Handling(p, "refresh")
  /\ LET tok == job[p].uad IN
     /\ Answer(p, tokenResponse(tok.uid, tok.tid))
     /\ issued' = [issued EXCEPT ![tok.tid] = now]
  /\ UNCHANGED <<server, held, ended>>

(* GET check, GET clientconfig and the other API groups.                   *)
Serve(p) ==
  /\ job[p].pc = "handle" /\ job[p].route \in {"clientconfig", "data", "admin"}
  /\ Answer(p, NoToken)
  /\ UNCHANGED <<server, held, history>>

-----------------------------------------------------------------------------
Tick ==
  /\ now < MaxTime
  /\ now' = now + 1
  /\ UNCHANGED <<SecretKey, TokenIds, logins, restarts, held, job, history>>

(* The server stops and starts again.  Requests it has received die with   *)
(* their connections; UsmInit makes an empty table; loadAuthzSecretKey     *)
(* finds the old key (COGGED_KEY or cogged.key) or draws another one.      *)
Restart ==
  /\ restarts < MaxRestarts
  /\ restarts' = restarts + 1
  /\ SecretKey' \in {SecretKey, restarts'}
  /\ TokenIds' = [u \in Users |-> {}]
  /\ job' = [p \in Slots |-> IF job[p].pc \in {"sent", "reply"} THEN job[p] ELSE FreeSlot]
  /\ ended' = [t \in Tids |-> IF t <= logins /\ ended[t] = "no" THEN "restart" ELSE ended[t]]
  /\ UNCHANGED <<now, logins, held, issued>>

Progress(p) ==
  \/ Deliver(p) \/ DeliverGo(p) \/ Receive(p) \/ DropExpired(p) \/ CheckTokenId(p)
  \/ Login(p) \/ Logout(p) \/ Refresh(p) \/ Serve(p)

Next ==
  \/ Tick
  \/ Restart
  \/ \E p \in Slots :
       \/ \E c \in Clients, route \in Routes : Send(p, c, route)
       \/ Lose(p)
       \/ Progress(p)

Spec == Init /\ [][Next]_vars
-----------------------------------------------------------------------------
(* The properties of the sessions.                                         *)

(* Every variable keeps its type; in particular a token is only ever       *)
(* issued for a user who logged in and a token id that was handed out.     *)
TypeOK ==
  /\ now \in 0 .. MaxTime
  /\ SecretKey \in 0 .. MaxRestarts
  /\ TokenIds \in [Users -> SUBSET Tids]
  /\ logins \in 0 .. MaxLogins
  /\ restarts \in 0 .. MaxRestarts
  /\ held \in [Clients -> Token \union {NoToken}]
  /\ job \in [Slots -> Job]
  /\ ended \in [Tids -> {"no", "logout", "expired", "restart"}]
  /\ issued \in [Tids -> 0 .. MaxTime]

(* Nothing revives a session.  A request sent with a token of a session    *)
(* that had been logged out, had lapsed or had been lost in a restart by   *)
(* then does not reach a handler as that user, whatever refreshes, delayed *)
(* requests and restarts surround it.                                      *)
SessionsStayOver ==
  \A p \in Slots : job[p].pc = "handle" /\ job[p].uad # NoToken => ~job[p].wasOver

(* A session nobody refreshes ends: a request sent when no token of the    *)
(* session had been issued for TokenExpiry reaches no handler as that      *)
(* user.  (The table keeps the token id until an expired token is          *)
(* presented, so only the timestamps do this.)                             *)
IdleSessionsExpire ==
  \A p \in Slots : job[p].pc = "handle" /\ job[p].uad # NoToken => ~job[p].wasIdle

(* The gate refuses a token only when its session is over, so the holder   *)
(* of a session is never locked out by what other clients of the same user *)
(* do, and what is refused once is refused for good (SessionsStayOver): a  *)
(* refresh after a refusal is refused too.                                 *)
RefusedOnlyWhenOver ==
  \A p \in Slots :
    job[p].pc = "reply" /\ job[p].status = "unauthorized" /\ job[p].token # NoToken
      => job[p].token.tid \in over

(* logout, refresh and the API groups use uad without looking whether it   *)
(* is nil: no request reaches them without a user.                         *)
UserKnownToHandlers ==
  \A p \in Slots :
    job[p].pc = "handle" /\ job[p].route \in {"logout", "refresh", "data", "admin"}
      => job[p].uad # NoToken

(* "there is no server-side revocation beyond logout() and expiry"         *)
(* (docs/frontend-guide.md:94-95): unless the server restarted, a refused  *)
(* token was of a session logged out, or has itself expired.               *)
UnexpiredTokenAccepted ==
  \A p \in Slots :
    job[p].pc = "reply" /\ job[p].status = "unauthorized" /\ job[p].token # NoToken
      => \/ ended[job[p].token.tid] \in {"logout", "restart"}
         \/ now >= job[p].token.ts + TokenExpiry

(* A login is accepted or denied for its credentials, not refused for the  *)
(* token that happens to come with it: /auth/login is on the allowlist of  *)
(* unauthenticated routes (cmd/cogged/main.go:238), and the Go client      *)
(* lists it among its unauthenticatedRoutes (client/apiclient.go:36).      *)
LoginNeedsNoToken ==
  \A p \in Slots :
    job[p].pc = "reply" /\ job[p].route = "login" => job[p].status \in {"ok", "denied"}
=============================================================================
