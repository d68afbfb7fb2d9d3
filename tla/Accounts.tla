------------------------------- MODULE Accounts -------------------------------
(***************************************************************************)
(* User accounts: the -adduser flag (cmd/cogged/main.go), PUT admin/user   *)
(* and PATCH admin/users (api/admin.go), the own objects that come with    *)
(* PATCH graph/nodes, and the part of POST auth/login that reads an        *)
(* account (api/auth.go).  Nothing makes usernames unique, and a session   *)
(* keeps the role it was opened with: the token carries it, and GET        *)
(* refresh copies it from the old token.  How tokens are issued, checked   *)
(* and expire is the subject of module Sessions; here a session is there   *)
(* or not.                                                                 *)
(*                                                                         *)
(* Users are uids in the order of their creation.  A stored hash is the    *)
(* password it was made from (security.HashPassword is injective for the   *)
(* purpose), or Empty, which stands for every string that is no hash.      *)
(***************************************************************************)
EXTENDS Naturals

CONSTANTS
  Names, Reserved,   \* usernames, and those that are empty or start with a tilde
  Pws, ShortPws,     \* passwords, and those that are too short
  Empty,             \* the empty string in place of a password hash
  Unset,             \* a field that PATCH users does not carry
  Roles,             \* the roles, "sys" among them
  Logins,            \* goroutines that serve logins
  SessionIds,        \* bound: sessions that are ever opened
  MaxUsers,          \* bound: users that are created
  MaxPatches         \* bound: accounts that are patched

ASSUME ConstantsOK ==
  /\ Names # {} /\ Reserved \subseteq Names /\ ShortPws \subseteq Pws
  /\ Empty \notin Pws /\ Unset \notin Pws \union Names \union Roles \union {Empty}
  /\ "sys" \in Roles
  /\ MaxUsers \in Nat /\ MaxPatches \in Nat

Uids == 1 .. MaxUsers

User == [un : Names, ph : Pws \union {Empty}, role : Roles]

VARIABLES
  users,     \* database: uid -> account
  count,     \* database: uids 1 .. count are users
  login,     \* what each login is doing
  session,   \* session id -> the session, or none
  patches,   \* accounts patched
  era,       \* history: uid -> how often its password or role was set
  lastPw,    \* history: uid -> the last password given for it
  altered    \* history: users whose ph was since emptied, or set by an own object

vars == <<users, count, login, session, patches, era, lastPw, altered>>

accounts == <<users, count, era, lastPw, altered>>

(* A login that has read an account: the password to verify, the account   *)
(* as it was read, and its era then.                                       *)
Login == [pc : {"idle", "verify"}, uid : 0 .. MaxUsers, pw : Pws \union {Empty},
          user : User, era : Nat]

NoAccount == [un |-> CHOOSE x \in Names : TRUE, ph |-> Empty, role |-> "sys"]

IdleLogin == [pc |-> "idle", uid |-> 0, pw |-> Empty, user |-> NoAccount, era |-> 0]

Session == [open : BOOLEAN, uid : 0 .. MaxUsers, role : Roles, pw : Pws \union {Empty}, era : Nat]

NoSession == [open |-> FALSE, uid |-> 0, role |-> "sys", pw |-> Empty, era |-> 0]

Init ==
  /\ users = [u \in Uids |-> NoAccount] /\ count = 0
  /\ login = [p \in Logins |-> IdleLogin]
  /\ session = [s \in SessionIds |-> NoSession]
  /\ patches = 0
  /\ era = [u \in Uids |-> 0]
  /\ lastPw = [u \in Uids |-> Empty] /\ altered = {}
-----------------------------------------------------------------------------
(* Creating and changing accounts.                                         *)

(* services.UpsertUsers for a new user.  No query looks for the name.  (A  *)
(* transaction that commits and is reported as failed is the same step; a  *)
(* retry of the request is another.)                                       *)
AddUser(un, pw, role) ==
  /\ count < MaxUsers /\ count' = count + 1
  /\ users' = [users EXCEPT ![count + 1] = [un |-> un, ph |-> pw, role |-> role]]
  /\ era' = [era EXCEPT ![count + 1] = @ + 1]
  /\ lastPw' = [lastPw EXCEPT ![count + 1] = pw]
  /\ UNCHANGED <<login, session, patches, altered>>

(* -adduser: the password is generated, long enough, and printed.          *)
addNewUser(un, pw, role) ==
  /\ un \notin Reserved /\ pw \notin ShortPws
  /\ AddUser(un, pw, role)

(* The gate: admin routes want the sys role in the token.                  *)
IsAdmin(s) == session[s].open /\ session[s].role = "sys"

(* PUT admin/user, and the validation of its request.                      *)
CreateUserValid(un, pw) == un \notin Reserved /\ pw \notin ShortPws

PutUser(s, un, pw, role) ==
  /\ IsAdmin(s) /\ CreateUserValid(un, pw)
  /\ AddUser(un, pw, role)

(* api.prepareUsersForUpdate: what becomes of the ph of a PATCH.  A        *)
(* password is replaced by its hash; an empty one passes as it is, and     *)
(* being present is written.  A variant writes an absent one too.          *)
PrepareAbsent(ph, old) == ph

PrepareForUpdate(ph, old) == IF ph = Unset THEN old ELSE ph

(* The transaction of a change to one account: the fields that are there.  *)
UpdateUser(u, un, ph, role) ==
  /\ patches < MaxPatches /\ patches' = patches + 1
  /\ users' = [users EXCEPT ![u] =
       [un   |-> IF un = Unset THEN @.un ELSE un,
        ph   |-> PrepareForUpdate(ph, @.ph),
        role |-> IF role = Unset THEN @.role ELSE role]]
  /\ era' = [era EXCEPT ![u] = @ + 1]
  /\ UNCHANGED <<count, login, session>>

(* PATCH admin/users for one user.  The name is not checked.               *)
PatchUser(s, u, un, ph, role) ==
  /\ IsAdmin(s) /\ ph \notin ShortPws
  /\ UpdateUser(u, un, ph, role)
  /\ lastPw' = [lastPw EXCEPT ![u] = IF ph \in Pws THEN ph ELSE @]
  /\ altered' = CASE ph = Empty -> altered \union {u}
                  [] ph \in Pws -> altered \ {u}
                  [] OTHER      -> altered

(* PATCH admin/users for a uid that is no user: the request may carry its  *)
(* dgraph.type, and with U in it the uid becomes one.  (Bound: it carries  *)
(* all fields, and the uid is later than those of the users.)              *)
PatchStranger(s, un, ph, role) ==
  /\ IsAdmin(s) /\ ph \notin ShortPws
  /\ AddUser(un, ph, role)

(* PATCH graph/nodes by anyone who is logged in: of the own object of a    *)
(* listed node only the uid is compared, of one in an e list nothing, and  *)
(* the rest is written as it is: ph is stored unhashed, so it is a hash    *)
(* the caller made of a password or no hash at all.                        *)
PatchOwn(s, u, un, ph, role) ==
  /\ session[s].open
  /\ UpdateUser(u, un, ph, role)
  /\ altered' = IF ph = Unset THEN altered ELSE altered \union {u}
  /\ UNCHANGED lastPw

(* The same for a uid that is no user, or for none at all.                 *)
OwnStranger(s, un, ph, role) == session[s].open /\ AddUser(un, ph, role)
-----------------------------------------------------------------------------
(* Logging in.                                                             *)

(* services.QueryUser takes the first user Dgraph returns: the oldest of   *)
(* the name.  A variant takes the newest.                                  *)
Named(un) == {u \in 1 .. count : users[u].un = un}

NewestNamed(un) == {u \in Named(un) : \A v \in Named(un) : v <= u}

QueryUser(un) == {u \in Named(un) : \A v \in Named(un) : u <= v}

(* security.VerifyPasswordHash: a stored string that is no hash fails.     *)
(* A variant accepts anything then.                                        *)
VerifyUnlessMalformed(ph, pw) == ph = Empty \/ ph = pw

VerifyPasswordHash(ph, pw) == ph # Empty /\ ph = pw

LoginValid(un) == un \notin Reserved

(* POST login: the account is read; a name nobody has ends the request.    *)
ReadUser(p, un, pw) ==
  /\ login[p].pc = "idle" /\ LoginValid(un)
  /\ \E u \in QueryUser(un) :
       login' = [login EXCEPT ![p] =
         [pc |-> "verify", uid |-> u, pw |-> pw, user |-> users[u], era |-> era[u]]]
  /\ UNCHANGED <<accounts, session, patches>>

(* The password is verified, which takes a while by design, and the        *)
(* session gets the role that was read.                                    *)
OpenSession(p, s) ==
  /\ login[p].pc = "verify" /\ session[s] = NoSession
  /\ VerifyPasswordHash(login[p].user.ph, login[p].pw)
  /\ session' = [session EXCEPT ![s] =
       [open |-> TRUE, uid |-> login[p].uid, role |-> login[p].user.role,
        pw |-> login[p].pw, era |-> login[p].era]]
  /\ login' = [login EXCEPT ![p] = IdleLogin]
  /\ UNCHANGED <<accounts, patches>>

RefuseLogin(p) ==
  /\ login[p].pc = "verify"
  /\ ~VerifyPasswordHash(login[p].user.ph, login[p].pw)
  /\ login' = [login EXCEPT ![p] = IdleLogin]
  /\ UNCHANGED <<accounts, session, patches>>

(* Logout or expiry (module Sessions); a refresh keeps the session as it   *)
(* is, role included.                                                      *)
Close(s) ==
  /\ session[s].open
  /\ session' = [session EXCEPT ![s].open = FALSE]
  /\ UNCHANGED <<accounts, login, patches>>

Next ==
  \/ \E un \in Names, pw \in Pws, role \in Roles :
       \/ addNewUser(un, pw, role)
       \/ \E s \in SessionIds : \/ PutUser(s, un, pw, role)
                                \/ PatchStranger(s, un, pw, role)
                                \/ OwnStranger(s, un, pw, role)
  \/ \E s \in SessionIds, u \in 1 .. count, un \in Names \union {Unset},
        ph \in Pws \union {Empty, Unset}, role \in Roles \union {Unset} :
          PatchUser(s, u, un, ph, role) \/ PatchOwn(s, u, un, ph, role)
  \/ \E p \in Logins : \/ \E un \in Names, pw \in Pws : ReadUser(p, un, pw)
                       \/ \E s \in SessionIds : OpenSession(p, s)
                       \/ RefuseLogin(p)
  \/ \E s \in SessionIds : Close(s)

Spec == Init /\ [][Next]_vars
-----------------------------------------------------------------------------
(* Properties.                                                             *)

TypeOK ==
  /\ users \in [Uids -> User] /\ count \in 0 .. MaxUsers
  /\ login \in [Logins -> Login] /\ session \in [SessionIds -> Session]
  /\ patches \in 0 .. MaxPatches /\ era \in [Uids -> Nat]
  /\ lastPw \in [Uids -> Pws \union {Empty}] /\ altered \subseteq Uids

(* A session has the role of its account and was opened with its password, *)
(* unless the account was changed after the login had read it, by whatever *)
(* request: no login that reads the account after a demotion or a change   *)
(* of password gets the old role or in with the old password (auth.go).    *)
SessionsMatchAccounts ==
  \A s \in SessionIds : session[s].open =>
    LET u == session[s].uid IN
    /\ u \in 1 .. count /\ session[s].era <= era[u]
    /\ session[s].era = era[u] =>
         session[s].role = users[u].role /\ session[s].pw = users[u].ph

(* The oldest user of a name can log in with the password last set for it  *)
(* and gets its own account, however many users of the name were made      *)
(* since and however they came about; but for names the login refuses, and *)
(* for users whose ph a PATCH users emptied or an own object in a PATCH    *)
(* graph/nodes replaced (services.QueryUser, api/auth.go).                 *)
EveryUserCanLogIn ==
  \A u \in 1 .. count :
    \/ u \in QueryUser(users[u].un) /\ VerifyPasswordHash(users[u].ph, lastPw[u])
    \/ \E v \in 1 .. (u - 1) : users[v].un = users[u].un
    \/ users[u].un \in Reserved
    \/ u \in altered
=============================================================================
