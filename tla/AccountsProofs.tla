---------------------------- MODULE AccountsProofs ----------------------------
(***************************************************************************)
(* Theorems about Accounts: its three invariants, for any number of users, *)
(* names, passwords, logins and sessions.                                  *)
(***************************************************************************)
EXTENDS Accounts, TLAPS

(* A login past its read knows a user that exists, and knows it as it is   *)
(* unless it has been patched since.                                       *)
LoginOK(l) ==
  l.pc = "verify" =>
    /\ l.uid \in 1 .. count /\ l.era <= era[l.uid]
    /\ l.era = era[l.uid] => l.user = users[l.uid]

(* The stored hash is of the password last given, unless a PATCH users     *)
(* emptied it or an own object set it.                                     *)
PasswordOK(u) == u \in altered \/ (users[u].ph = lastPw[u] /\ lastPw[u] \in Pws)

SessionOK(s) ==
  session[s].open =>
    /\ session[s].uid \in 1 .. count /\ session[s].era <= era[session[s].uid]
    /\ session[s].era = era[session[s].uid] =>
         /\ session[s].role = users[session[s].uid].role
         /\ session[s].pw = users[session[s].uid].ph

IInv ==
  /\ TypeOK
  /\ \A p \in Logins : LoginOK(login[p])
  /\ \A s \in SessionIds : SessionOK(s)
  /\ \A u \in 1 .. count : PasswordOK(u)

-----------------------------------------------------------------------------
(* What the records built by the actions are.                              *)

LEMMA Defaults ==
  NoAccount \in User /\ IdleLogin \in Login /\ NoSession \in Session
<1>1. NoAccount \in User
  BY ConstantsOK DEF NoAccount, User
<1>2. MaxUsers \in Nat
  BY ConstantsOK
<1>3. IdleLogin \in Login
  BY <1>1, <1>2 DEF IdleLogin, Login
<1>4. NoSession \in Session
  BY <1>2, ConstantsOK DEF NoSession, Session
<1> QED BY <1>1, <1>3, <1>4

LEMMA InitInv == Init => IInv
<1> SUFFICES ASSUME Init PROVE IInv
  OBVIOUS
<1>1. MaxUsers \in Nat /\ MaxPatches \in Nat
  BY ConstantsOK
<1>2. TypeOK
  BY <1>1, Defaults DEF Init, TypeOK
<1>3. \A p \in Logins : LoginOK(login[p])
  BY DEF Init, LoginOK, IdleLogin
<1>4. \A s \in SessionIds : SessionOK(s)
  BY DEF Init, SessionOK, NoSession
<1>5. \A u \in 1 .. count : PasswordOK(u)
  BY DEF Init
<1> QED BY <1>2, <1>3, <1>4, <1>5 DEF IInv

(* A new user gets the next uid, which nobody knows yet.                   *)
LEMMA AddUserInv ==
  ASSUME IInv, NEW un \in Names, NEW pw \in Pws, NEW role \in Roles, AddUser(un, pw, role)
  PROVE  IInv'
<1>1. TypeOK /\ MaxUsers \in Nat /\ count \in 0 .. MaxUsers
  BY ConstantsOK DEF IInv, TypeOK
<1> DEFINE new == [un |-> un, ph |-> pw, role |-> role]
<1>2. new \in User /\ count + 1 \in Uids
  BY <1>1 DEF AddUser, User, Uids
<1>3. /\ count' = count + 1 /\ users' = [users EXCEPT ![count + 1] = new]
      /\ era' = [era EXCEPT ![count + 1] = era[count + 1] + 1]
      /\ lastPw' = [lastPw EXCEPT ![count + 1] = pw]
      /\ UNCHANGED <<login, session, patches, altered>>
  BY DEF AddUser
<1> HIDE DEF new
<1>4. TypeOK'
  BY <1>1, <1>2, <1>3 DEF TypeOK, Uids, AddUser
<1>5. /\ \A u \in 1 .. count : /\ u # count + 1 /\ u \in Uids /\ u \in 1 .. count'
                               /\ users'[u] = users[u] /\ era'[u] = era[u]
                               /\ lastPw'[u] = lastPw[u]
  BY <1>1, <1>3 DEF TypeOK, Uids
<1>6. (\A p \in Logins : LoginOK(login[p]))'
  BY <1>3, <1>5 DEF IInv, LoginOK
<1>7. (\A s \in SessionIds : SessionOK(s))'
  BY <1>3, <1>5 DEF IInv, SessionOK
<1>8. (\A u \in 1 .. count : PasswordOK(u))'
  <2> SUFFICES ASSUME NEW u \in 1 .. count' PROVE PasswordOK(u)'
    OBVIOUS
  <2>1. CASE u \in 1 .. count
    BY <2>1, <1>3, <1>5 DEF IInv, PasswordOK
  <2>2. CASE u = count + 1
    BY <2>2, <1>1, <1>2, <1>3 DEF PasswordOK, TypeOK, new
  <2> QED BY <2>1, <2>2, <1>1, <1>3
<1> QED BY <1>4, <1>6, <1>7, <1>8 DEF IInv

(* A change makes everything known of the user from before it outdated.    *)
LEMMA UpdateUserInv ==
  ASSUME IInv, NEW u \in 1 .. count, NEW un \in Names \union {Unset},
         NEW ph \in Pws \union {Empty, Unset}, NEW role \in Roles \union {Unset},
         UpdateUser(u, un, ph, role),
         lastPw' \in [Uids -> Pws \union {Empty}], altered' \subseteq Uids,
         (\A v \in 1 .. count : PasswordOK(v))'
  PROVE  IInv'
<1>1. TypeOK /\ count \in 0 .. MaxUsers /\ MaxUsers \in Nat /\ MaxPatches \in Nat
  BY ConstantsOK DEF IInv, TypeOK
<1>2. 1 .. count \subseteq Uids /\ u \in Uids /\ users[u] \in User
  BY <1>1 DEF Uids, TypeOK
<1> DEFINE new == [un   |-> IF un = Unset THEN users[u].un ELSE un,
                   ph   |-> PrepareForUpdate(ph, users[u].ph),
                   role |-> IF role = Unset THEN users[u].role ELSE role]
<1>3. /\ users' = [users EXCEPT ![u] = new]
      /\ era' = [era EXCEPT ![u] = era[u] + 1]
      /\ UNCHANGED <<count, login, session>>
  BY <1>1, <1>2 DEF UpdateUser, TypeOK
<1>4. new \in User
  BY <1>2 DEF User, PrepareForUpdate
<1> HIDE DEF new
<1>5. TypeOK'
  <2>1. patches' \in 0 .. MaxPatches
    BY <1>1 DEF UpdateUser, TypeOK
  <2> QED BY <2>1, <1>1, <1>2, <1>3, <1>4 DEF TypeOK
<1>6. /\ era'[u] > era[u] /\ era'[u] \in Nat /\ era[u] \in Nat
      /\ \A v \in 1 .. count : v # u => users'[v] = users[v] /\ era'[v] = era[v]
  BY <1>1, <1>2, <1>3 DEF TypeOK
<1>7. (\A p \in Logins : LoginOK(login[p]))'
  <2> SUFFICES ASSUME NEW p \in Logins, login[p].pc = "verify" PROVE LoginOK(login[p])'
    BY <1>3 DEF LoginOK
  <2>1. LoginOK(login[p]) /\ login[p].era \in Nat /\ login'[p] = login[p] /\ count' = count
    BY <1>1, <1>3 DEF IInv, TypeOK, Login
  <2>2. CASE login[p].uid = u
    BY <2>1, <2>2, <1>6 DEF LoginOK
  <2>3. CASE login[p].uid # u
    BY <2>1, <2>3, <1>6 DEF LoginOK
  <2> QED BY <2>2, <2>3
<1>8. (\A t \in SessionIds : SessionOK(t))'
  <2> SUFFICES ASSUME NEW t \in SessionIds, session[t].open PROVE SessionOK(t)'
    BY <1>3 DEF SessionOK
  <2>1. SessionOK(t) /\ session[t].era \in Nat /\ session'[t] = session[t] /\ count' = count
    BY <1>1, <1>3 DEF IInv, TypeOK, Session
  <2>2. CASE session[t].uid = u
    BY <2>1, <2>2, <1>6 DEF SessionOK
  <2>3. CASE session[t].uid # u
    BY <2>1, <2>3, <1>6 DEF SessionOK
  <2> QED BY <2>2, <2>3
<1> QED BY <1>5, <1>7, <1>8 DEF IInv

LEMMA PatchUserInv ==
  ASSUME IInv, NEW s \in SessionIds, NEW u \in 1 .. count, NEW un \in Names \union {Unset},
         NEW ph \in Pws \union {Empty, Unset}, NEW role \in Roles \union {Unset},
         PatchUser(s, u, un, ph, role)
  PROVE  IInv'
<1>1. TypeOK /\ count \in 0 .. MaxUsers /\ MaxUsers \in Nat
  BY ConstantsOK DEF IInv, TypeOK
<1>2. 1 .. count \subseteq Uids /\ u \in Uids /\ users[u] \in User
  BY <1>1 DEF Uids, TypeOK
<1>3. /\ UpdateUser(u, un, ph, role)
      /\ lastPw' = [lastPw EXCEPT ![u] = IF ph \in Pws THEN ph ELSE lastPw[u]]
  BY <1>1, <1>2 DEF PatchUser, TypeOK
<1>4. /\ count' = count /\ users'[u].ph = PrepareForUpdate(ph, users[u].ph)
      /\ \A v \in 1 .. count : v # u => users'[v] = users[v] /\ lastPw'[v] = lastPw[v]
      /\ lastPw'[u] = IF ph \in Pws THEN ph ELSE lastPw[u]
  BY <1>1, <1>2, <1>3 DEF UpdateUser, TypeOK, User
<1>5. altered' \subseteq Uids /\ (\A v \in altered : v # u => v \in altered')
  BY <1>1, <1>2 DEF PatchUser, TypeOK
<1>6. lastPw' \in [Uids -> Pws \union {Empty}]
  BY <1>1, <1>2, <1>3 DEF TypeOK
<1>7. (\A v \in 1 .. count : PasswordOK(v))'
  <2> SUFFICES ASSUME NEW v \in 1 .. count PROVE PasswordOK(v)'
    BY <1>4
  <2>1. PasswordOK(v)
    BY DEF IInv
  <2>2. CASE v # u
    BY <2>1, <2>2, <1>4, <1>5 DEF PasswordOK
  <2>3. CASE v = u
    <3>1. CASE ph \in Pws
      BY <2>3, <3>1, <1>4, ConstantsOK DEF PasswordOK, PrepareForUpdate
    <3>2. CASE ph = Empty
      <4>1. altered' = altered \union {u}
        BY <3>2, ConstantsOK DEF PatchUser
      <4> QED BY <2>3, <4>1 DEF PasswordOK
    <3>3. CASE ph = Unset
      <4>1. ph \notin Pws /\ ph # Empty
        BY <3>3, ConstantsOK
      <4>2. altered' = altered
        BY <4>1 DEF PatchUser
      <4> QED BY <2>1, <2>3, <3>3, <4>1, <4>2, <1>4 DEF PasswordOK, PrepareForUpdate
    <3> QED BY <3>1, <3>2, <3>3
  <2> QED BY <2>2, <2>3
<1> QED BY <1>3, <1>5, <1>6, <1>7, UpdateUserInv

LEMMA PatchOwnInv ==
  ASSUME IInv, NEW s \in SessionIds, NEW u \in 1 .. count, NEW un \in Names \union {Unset},
         NEW ph \in Pws \union {Empty, Unset}, NEW role \in Roles \union {Unset},
         PatchOwn(s, u, un, ph, role)
  PROVE  IInv'
<1>1. TypeOK /\ count \in 0 .. MaxUsers /\ MaxUsers \in Nat
  BY ConstantsOK DEF IInv, TypeOK
<1>2. 1 .. count \subseteq Uids /\ u \in Uids
  BY <1>1 DEF Uids
<1>3. /\ UpdateUser(u, un, ph, role) /\ lastPw' = lastPw
      /\ altered' = IF ph = Unset THEN altered ELSE altered \union {u}
  BY DEF PatchOwn
<1>4. lastPw' \in [Uids -> Pws \union {Empty}] /\ altered' \subseteq Uids
  BY <1>1, <1>2, <1>3 DEF TypeOK
<1>5. /\ count' = count /\ users'[u].ph = PrepareForUpdate(ph, users[u].ph)
      /\ \A v \in 1 .. count : v # u => users'[v] = users[v]
  BY <1>1, <1>2, <1>3 DEF UpdateUser, TypeOK
<1>6. (\A v \in 1 .. count : PasswordOK(v))'
  <2> SUFFICES ASSUME NEW v \in 1 .. count PROVE PasswordOK(v)'
    BY <1>5
  <2>1. PasswordOK(v)
    BY DEF IInv
  <2>2. CASE v # u
    BY <2>1, <2>2, <1>3, <1>5 DEF PasswordOK
  <2>3. CASE v = u /\ ph = Unset
    BY <2>1, <2>3, <1>3, <1>5 DEF PasswordOK, PrepareForUpdate
  <2>4. CASE v = u /\ ph # Unset
    BY <2>4, <1>3 DEF PasswordOK
  <2> QED BY <2>2, <2>3, <2>4
<1> QED BY <1>3, <1>4, <1>6, UpdateUserInv

(* The steps that leave the accounts alone disturb the logins or sessions. *)
LEMMA AccountsKept ==
  ASSUME IInv, UNCHANGED <<accounts, patches>>, login' \in [Logins -> Login],
         session' \in [SessionIds -> Session],
         \A p \in Logins : LoginOK(login'[p]), \A s \in SessionIds : SessionOK(s)'
  PROVE  IInv'
<1>1. TypeOK'
  BY DEF IInv, TypeOK, accounts
<1>2. (\A p \in Logins : LoginOK(login[p]))'
  BY DEF LoginOK, accounts
<1>3. (\A u \in 1 .. count : PasswordOK(u))'
  BY DEF IInv, PasswordOK, accounts
<1> QED BY <1>1, <1>2, <1>3 DEF IInv

LEMMA ReadUserInv ==
  ASSUME IInv, NEW p \in Logins, NEW un \in Names, NEW pw \in Pws, ReadUser(p, un, pw)
  PROVE  IInv'
<1>1. TypeOK /\ count \in 0 .. MaxUsers /\ MaxUsers \in Nat
  BY ConstantsOK DEF IInv, TypeOK
<1>2. PICK u \in QueryUser(un) :
        login' = [login EXCEPT ![p] = [pc |-> "verify", uid |-> u, pw |-> pw,
                                       user |-> users[u], era |-> era[u]]]
  BY DEF ReadUser
<1> DEFINE l == [pc |-> "verify", uid |-> u, pw |-> pw, user |-> users[u], era |-> era[u]]
<1>3. u \in 1 .. count /\ u \in Uids
  BY <1>1 DEF QueryUser, Named, Uids
<1>4. l \in Login /\ era[u] \in Nat
  BY <1>1, <1>3 DEF Login, TypeOK, Uids
<1>5. LoginOK(l)
  BY <1>3, <1>4 DEF LoginOK
<1> HIDE DEF l
<1>6. login' \in [Logins -> Login] /\ \A q \in Logins : login'[q] = l \/ login'[q] = login[q]
  BY <1>1, <1>2, <1>4 DEF TypeOK, l
<1>7. \A q \in Logins : LoginOK(login'[q])
  BY <1>5, <1>6 DEF IInv
<1>8. session' = session /\ UNCHANGED <<accounts, patches>>
  BY DEF ReadUser
<1>9. session' \in [SessionIds -> Session] /\ \A s \in SessionIds : SessionOK(s)'
  BY <1>1, <1>8 DEF IInv, TypeOK, SessionOK, accounts
<1> QED BY <1>6, <1>7, <1>8, <1>9, AccountsKept

LEMMA OpenSessionInv ==
  ASSUME IInv, NEW p \in Logins, NEW s \in SessionIds, OpenSession(p, s)
  PROVE  IInv'
<1>1. TypeOK /\ login[p] \in Login /\ LoginOK(login[p])
  BY DEF IInv, TypeOK
<1> DEFINE new == [open |-> TRUE, uid |-> login[p].uid, role |-> login[p].user.role,
                   pw |-> login[p].pw, era |-> login[p].era]
<1>2. new \in Session
  BY <1>1 DEF Login, Session, User
<1>3. /\ session' = [session EXCEPT ![s] = new] /\ login' = [login EXCEPT ![p] = IdleLogin]
      /\ login[p].pc = "verify" /\ login[p].user.ph = login[p].pw
      /\ UNCHANGED <<accounts, patches>>
  BY DEF OpenSession, VerifyPasswordHash
<1>4. login' \in [Logins -> Login] /\ session' \in [SessionIds -> Session]
  BY <1>1, <1>2, <1>3, Defaults DEF TypeOK
<1>5. \A q \in Logins : LoginOK(login'[q])
  BY <1>1, <1>3 DEF IInv, LoginOK, IdleLogin, TypeOK
<1>6. \A t \in SessionIds : SessionOK(t)'
  <2> SUFFICES ASSUME NEW t \in SessionIds PROVE SessionOK(t)'
    OBVIOUS
  <2>1. CASE t # s
    BY <2>1, <1>1, <1>3 DEF IInv, SessionOK, accounts, TypeOK
  <2>2. CASE t = s
    <3>1. session'[t] = new
      BY <2>2, <1>1, <1>3 DEF TypeOK
    <3> QED BY <3>1, <1>1, <1>3 DEF SessionOK, LoginOK, accounts
  <2> QED BY <2>1, <2>2
<1> QED BY <1>3, <1>4, <1>5, <1>6, AccountsKept

LEMMA RefuseLoginInv ==
  ASSUME IInv, NEW p \in Logins, RefuseLogin(p)
  PROVE  IInv'
<1>1. TypeOK
  BY DEF IInv
<1>2. login' \in [Logins -> Login] /\ \A q \in Logins : LoginOK(login'[q])
  BY <1>1, Defaults DEF RefuseLogin, IInv, TypeOK, LoginOK, IdleLogin
<1>3. session' = session /\ UNCHANGED <<accounts, patches>>
  BY DEF RefuseLogin
<1>4. session' \in [SessionIds -> Session] /\ \A s \in SessionIds : SessionOK(s)'
  BY <1>1, <1>3 DEF IInv, TypeOK, SessionOK, accounts
<1> QED BY <1>2, <1>3, <1>4, AccountsKept

LEMMA CloseInv ==
  ASSUME IInv, NEW s \in SessionIds, Close(s)
  PROVE  IInv'
<1>1. TypeOK
  BY DEF IInv
<1>2. login' = login /\ UNCHANGED <<accounts, patches>>
      /\ session' = [session EXCEPT ![s] = [session[s] EXCEPT !.open = FALSE]]
  BY DEF Close
<1>3. session' \in [SessionIds -> Session]
  BY <1>1, <1>2 DEF TypeOK, Session
<1>4. login' \in [Logins -> Login] /\ \A q \in Logins : LoginOK(login'[q])
  BY <1>1, <1>2 DEF IInv, TypeOK
<1>5. \A t \in SessionIds : SessionOK(t)'
  BY <1>1, <1>2 DEF IInv, SessionOK, accounts, TypeOK, Session
<1> QED BY <1>2, <1>3, <1>4, <1>5, AccountsKept

LEMMA NextInv == IInv /\ [Next]_vars => IInv'
<1> SUFFICES ASSUME IInv, [Next]_vars PROVE IInv'
  OBVIOUS
<1>1. ASSUME NEW un \in Names, NEW pw \in Pws, NEW role \in Roles, AddUser(un, pw, role)
      PROVE  IInv'
  BY <1>1, AddUserInv
<1>2. ASSUME NEW un \in Names, NEW pw \in Pws, NEW role \in Roles, NEW s \in SessionIds,
             addNewUser(un, pw, role) \/ PutUser(s, un, pw, role)
               \/ PatchStranger(s, un, pw, role) \/ OwnStranger(s, un, pw, role)
      PROVE  IInv'
  BY <1>1, <1>2 DEF addNewUser, PutUser, PatchStranger, OwnStranger
<1>3. CASE UNCHANGED vars
  <2>1. UNCHANGED <<accounts, patches>> /\ login' = login /\ session' = session
    BY <1>3 DEF vars, accounts
  <2> QED BY <2>1 DEF IInv, TypeOK, LoginOK, SessionOK, PasswordOK, accounts
<1> QED BY <1>1, <1>2, <1>3, PatchUserInv, PatchOwnInv, ReadUserInv, OpenSessionInv,
           RefuseLoginInv, CloseInv DEF Next, addNewUser

-----------------------------------------------------------------------------
LEMMA Invariance == Spec => []IInv
<1> QED BY InitInv, NextInv, PTL DEF Spec

(* Every variable keeps its type (api/admin.go, api/auth.go).              *)
THEOREM TypeCorrect == Spec => []TypeOK
<1>1. IInv => TypeOK
  BY DEF IInv
<1> QED BY <1>1, Invariance, PTL

(* A session differs from its account only when the account was changed    *)
(* after the login read it (POST login, GET refresh), for any number of    *)
(* overlapping logins and changes, those by own objects included.          *)
THEOREM SessionsAgreeWithAccounts == Spec => []SessionsMatchAccounts
<1>1. IInv => SessionsMatchAccounts
  BY DEF IInv, SessionOK, SessionsMatchAccounts
<1> QED BY <1>1, Invariance, PTL

(* The oldest user of a name is not locked out by newer ones, only by a    *)
(* name the login refuses, a PATCH users with an empty ph or an own object *)
(* with one (services.QueryUser, api/auth.go), for any number of users     *)
(* and of requests that make and change them.                              *)
THEOREM LoginsFindTheirUser == Spec => []EveryUserCanLogIn
<1>1. IInv => EveryUserCanLogIn
  <2> SUFFICES ASSUME IInv, NEW u \in 1 .. count,
                      u \notin altered, \A v \in 1 .. (u - 1) : users[v].un # users[u].un
               PROVE  u \in QueryUser(users[u].un) /\ VerifyPasswordHash(users[u].ph, lastPw[u])
    BY DEF EveryUserCanLogIn
  <2>1. users[u].ph = lastPw[u] /\ lastPw[u] \in Pws
    BY DEF IInv, PasswordOK
  <2>2. count \in Nat
    BY ConstantsOK DEF IInv, TypeOK
  <2>3. \A v \in Named(users[u].un) : u <= v
    BY <2>2 DEF Named
  <2> QED BY <2>1, <2>3, ConstantsOK DEF QueryUser, Named, VerifyPasswordHash
<1> QED BY <1>1, Invariance, PTL
=============================================================================
