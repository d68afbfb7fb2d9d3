---------------------------- MODULE SessionsProofs ----------------------------
(***************************************************************************)
(* Sessions: the safety properties for any number of clients, users,       *)
(* requests, logins, restarts and ticks.                                   *)
(*                                                                         *)
(* None of the properties is inductive.  Whether a session is over is a    *)
(* fact about TokenIds and what ended it; a token that somebody holds, or  *)
(* that is on its way, must be tied to that fact (TokenOK), and a request  *)
(* past the first check must remember what that check established (JobOK). *)
(***************************************************************************)
EXTENDS Sessions, TLAPS

(* The session manager's table and the history agree, and speak only of    *)
(* token ids that were handed out.                                         *)
TablesOK ==
  /\ \A u \in Users : \A t \in TokenIds[u] : t <= logins /\ ended[t] = "no"
  /\ \A t \in Tids : ended[t] # "no" => t <= logins
  /\ \A t \in Tids : issued[t] <= now

(* A token in circulation: its id was handed out, to this user only; it is *)
(* no younger than the last one issued for the id; and its session is      *)
(* either in the table, under the present key, or over.                    *)
TokenOK(k) ==
  /\ k.tid <= logins
  /\ k.ts <= issued[k.tid]
  /\ \A u \in Users : k.tid \in TokenIds[u] => u = k.uid
  /\ ended[k.tid] # "no" \/ (k.tid \in TokenIds[k.uid] /\ k.key = SecretKey)

(* What is known of a request at each stage.                               *)
JobOK(j) ==
  /\ j.token # NoToken => TokenOK(j.token)
  /\ j.new # NoToken => TokenOK(j.new)
  /\ j.uad # NoToken => j.uad = j.token
  /\ j.pc = "sent" => j.uad = NoToken
  /\ j.pc \in {"sent", "expired", "checkid", "handle"} => j.client \in Clients
  /\ j.pc \in {"expired", "checkid"} => j.uad # NoToken
  /\ j.wasOver => j.token # NoToken /\ ended[j.token.tid] # "no"
  /\ j.wasIdle => j.token # NoToken /\ now >= j.token.ts + TokenExpiry
  /\ j.pc = "checkid" => ~j.wasIdle
  /\ j.pc = "handle" /\ j.uad # NoToken => ~j.wasOver /\ ~j.wasIdle
  /\ j.pc = "handle" /\ j.uad = NoToken => j.route \in AllowList
  /\ j.pc = "reply" /\ j.status = "unauthorized" /\ j.token # NoToken
       => ended[j.token.tid] # "no"

IInv ==
  /\ TypeOK
  /\ TablesOK
  /\ \A c \in Clients : held[c] # NoToken => TokenOK(held[c])
  /\ \A p \in Slots : JobOK(job[p])

-----------------------------------------------------------------------------
LEMMA OverIsEnded == TypeOK => \A t \in Tids : t \in over <=> ended[t] # "no"
BY DEF TypeOK, over

LEMMA TokenFields ==
  ASSUME NEW k \in Token
  PROVE  k.uid \in Users /\ k.tid \in Tids /\ k.ts \in 0 .. MaxTime /\ k.key \in 0 .. MaxRestarts
BY DEF Token

LEMMA Bounds == Tids \subseteq Nat /\ 0 .. MaxTime \subseteq Nat /\ TokenExpiry \in Nat
BY SessionConstants DEF Tids

LEMMA JobFields ==
  ASSUME NEW j \in Job
  PROVE  /\ j.token # NoToken => j.token \in Token
         /\ j.uad # NoToken => j.uad \in Token
         /\ j.new # NoToken => j.new \in Token
BY DEF Job

(* A free slot satisfies everything that is known of a request.            *)
LEMMA FreeSlotOK == FreeSlot \in Job /\ JobOK(FreeSlot) /\ JobOK(FreeSlot)'
BY SessionConstants DEF FreeSlot, JobOK, Job, Routes

(* A step that keeps every token in circulation sound, ends no session's   *)
(* end and turns no clock back keeps what is known of a request.           *)
LEMMA JobKept ==
  ASSUME TypeOK, TypeOK',
         \A k \in Token : TokenOK(k) => TokenOK(k)',
         \A t \in Tids : ended[t] # "no" => ended'[t] # "no",
         now <= now',
         NEW j \in Job, JobOK(j)
  PROVE  JobOK(j)'
<1>1. now \in Nat /\ now' \in Nat
  BY Bounds DEF TypeOK
<1>2. j.token # NoToken => j.token.tid \in Tids /\ j.token.ts \in Nat
  BY JobFields, TokenFields, Bounds
<1>3. TokenExpiry \in Nat
  BY Bounds
<1>4. j.token # NoToken => TokenOK(j.token)'
  BY JobFields DEF JobOK
<1>5. j.new # NoToken => TokenOK(j.new)'
  BY JobFields DEF JobOK
<1>6. j.wasIdle => j.token # NoToken /\ now' >= j.token.ts + TokenExpiry
  BY <1>1, <1>2, <1>3 DEF JobOK
<1>7. j.wasOver => j.token # NoToken /\ ended'[j.token.tid] # "no"
  BY <1>2 DEF JobOK
<1>8. j.pc = "reply" /\ j.status = "unauthorized" /\ j.token # NoToken
        => ended'[j.token.tid] # "no"
  BY <1>2 DEF JobOK
<1> QED
  BY <1>4, <1>5, <1>6, <1>7, <1>8 DEF JobOK

(* The frame of every step that touches one slot: with the above, only the *)
(* new contents of that slot and the tokens the clients hold are left.     *)
LEMMA SlotStep ==
  ASSUME IInv, TypeOK', TablesOK',
         \A k \in Token : TokenOK(k) => TokenOK(k)',
         \A t \in Tids : ended[t] # "no" => ended'[t] # "no",
         now <= now',
         NEW p \in Slots, NEW j \in Job, SetJob(p, j), JobOK(j)',
         (\A c \in Clients : held[c] # NoToken => TokenOK(held[c]))'
  PROVE  IInv'
<1>1. ASSUME NEW q \in Slots PROVE JobOK(job[q])'
  <2>1. CASE q = p
    <3>1. job'[q] = j
      BY <2>1 DEF SetJob, IInv, TypeOK
    <3> QED BY <3>1 DEF JobOK, TokenOK
  <2>2. CASE q # p
    <3>1. PICK r \in Job : r = job[q]
      BY DEF IInv, TypeOK
    <3>2. JobOK(r)
      BY <3>1 DEF IInv
    <3>3. JobOK(r)'
      BY <3>2, JobKept DEF IInv
    <3>4. job'[q] = r
      BY <2>2, <3>1 DEF SetJob, IInv, TypeOK
    <3> QED BY <3>3, <3>4 DEF JobOK, TokenOK
  <2> QED BY <2>1, <2>2
<1> QED BY <1>1 DEF IInv

Statuses == {"none", "ok", "unauthorized", "forbidden", "denied"}

(* The slot after a reply has the type of one.                             *)
LEMMA ReplyType ==
  ASSUME TypeOK, NEW p \in Slots, NEW status \in Statuses,
         NEW tok \in Token \union {NoToken}, Reply(p, status, tok)
  PROVE  /\ job' \in [Slots -> Job]
         /\ \E j \in Job :
              /\ SetJob(p, j)
              /\ j.pc = "reply" /\ j.status = status /\ j.new = tok /\ j.uad = NoToken
              /\ ~j.wasOver /\ ~j.wasIdle
              /\ j.token = IF status = "unauthorized" THEN job[p].token ELSE NoToken
<1> DEFINE j == [FreeSlot EXCEPT
                   !.pc = "reply", !.client = job[p].client, !.route = job[p].route,
                   !.status = status, !.new = tok,
                   !.token = IF status = "unauthorized" THEN job[p].token ELSE NoToken]
<1>1. job[p].client \in Clients \union {NoClient} /\ job[p].route \in Routes
      /\ (IF status = "unauthorized" THEN job[p].token ELSE NoToken) \in Token \union {NoToken}
  BY DEF TypeOK, Job
<1>2. j \in Job
  BY <1>1 DEF Job, FreeSlot, Statuses
<1>3. SetJob(p, j)
  BY DEF Reply
<1>4. job' \in [Slots -> Job]
  BY <1>2, <1>3 DEF SetJob, TypeOK
<1>5. /\ j.pc = "reply" /\ j.status = status /\ j.new = tok /\ j.uad = NoToken
      /\ ~j.wasOver /\ ~j.wasIdle
      /\ j.token = IF status = "unauthorized" THEN job[p].token ELSE NoToken
  BY DEF FreeSlot
<1> HIDE DEF j
<1> QED BY <1>2, <1>3, <1>4, <1>5

(* Sending a reply keeps the invariant when the token in it is sound and   *)
(* a refused one is of a session that is over.                             *)
LEMMA ReplyStep ==
  ASSUME IInv, TypeOK', TablesOK',
         \A k \in Token : TokenOK(k) => TokenOK(k)',
         \A t \in Tids : ended[t] # "no" => ended'[t] # "no",
         now <= now',
         NEW p \in Slots, NEW status \in Statuses,
         NEW tok \in Token \union {NoToken}, Reply(p, status, tok),
         tok # NoToken => TokenOK(tok)',
         status = "unauthorized" /\ job[p].token # NoToken => ended'[job[p].token.tid] # "no",
         UNCHANGED held
  PROVE  IInv'
<1>1. PICK j \in Job :
        /\ SetJob(p, j)
        /\ j.pc = "reply" /\ j.status = status /\ j.new = tok /\ j.uad = NoToken
        /\ ~j.wasOver /\ ~j.wasIdle
        /\ j.token = IF status = "unauthorized" THEN job[p].token ELSE NoToken
  BY ReplyType DEF IInv
<1>2. j.token # NoToken => TokenOK(j.token)'
  <2>1. j.token # NoToken => j.token \in Token
    BY JobFields
  <2>2. j.token # NoToken => TokenOK(j.token)
    <3>1. JobOK(job[p])
      BY DEF IInv
    <3> QED BY <3>1, <1>1 DEF JobOK
  <2> QED BY <2>1, <2>2
<1>3. JobOK(j)'
  BY <1>1, <1>2 DEF JobOK
<1>4. (\A c \in Clients : held[c] # NoToken => TokenOK(held[c]))'
  <2> SUFFICES ASSUME NEW c \in Clients, held'[c] # NoToken
               PROVE  TokenOK(held[c])'
    OBVIOUS
  <2>1. PICK k \in Token : k = held[c]
    BY DEF IInv, TypeOK
  <2>2. TokenOK(k)'
    BY <2>1 DEF IInv
  <2> QED BY <2>1, <2>2 DEF TokenOK
<1> QED BY <1>1, <1>3, <1>4, SlotStep

(* Steps that leave the server's tables and the history alone.             *)
LEMMA TablesUnchanged ==
  ASSUME TypeOK, TablesOK, UNCHANGED <<TokenIds, logins, ended, issued, SecretKey>>,
         now' \in Nat, now <= now'
  PROVE  /\ TablesOK'
         /\ \A k \in Token : TokenOK(k) => TokenOK(k)'
         /\ \A t \in Tids : ended[t] # "no" => ended'[t] # "no"
<1>1. \A t \in Tids : issued[t] \in Nat
  BY Bounds DEF TypeOK
<1>2. now \in Nat
  BY Bounds DEF TypeOK
<1>3. \A t \in Tids : issued'[t] <= now'
  BY <1>1, <1>2 DEF TablesOK
<1>4. TablesOK'
  BY <1>3 DEF TablesOK
<1>5. \A k \in Token : TokenOK(k) => TokenOK(k)'
  BY DEF TokenOK
<1> QED BY <1>4, <1>5

(* The tokens held stay sound in a step that leaves held alone and keeps   *)
(* every token sound.                                                      *)
LEMMA HeldKept ==
  ASSUME IInv, UNCHANGED held, \A k \in Token : TokenOK(k) => TokenOK(k)'
  PROVE  (\A c \in Clients : held[c] # NoToken => TokenOK(held[c]))'
<1> SUFFICES ASSUME NEW c \in Clients, held'[c] # NoToken
             PROVE  TokenOK(held[c])'
  OBVIOUS
<1>1. PICK k \in Token : k = held[c]
  BY DEF IInv, TypeOK
<1>2. TokenOK(k)'
  BY <1>1 DEF IInv
<1> QED BY <1>1, <1>2 DEF TokenOK

-----------------------------------------------------------------------------
(* One lemma per action.                                                   *)

LEMMA SendInv ==
  ASSUME IInv, NEW p \in Slots, NEW c \in Clients, NEW route \in Routes, Send(p, c, route)
  PROVE  IInv'
<1> DEFINE tok == held[c]
           e == [FreeSlot EXCEPT
                   !.pc = "sent", !.client = c, !.route = route, !.token = tok,
                   !.wasOver = tok # NoToken /\ tok.tid \in over,
                   !.wasIdle = tok # NoToken /\ now >= issued[tok.tid] + TokenExpiry]
<1>1. TypeOK
  BY DEF IInv
<1>2. tok \in Token \union {NoToken}
  BY <1>1 DEF TypeOK
<1>3. e \in Job
  BY <1>2 DEF Job, FreeSlot
<1>4. SetJob(p, e)
  BY DEF Send
<1>5. TypeOK'
  BY <1>1, <1>3, <1>4 DEF Send, SetJob, TypeOK, server, history
<1>6. /\ TablesOK'
      /\ \A k \in Token : TokenOK(k) => TokenOK(k)'
      /\ \A t \in Tids : ended[t] # "no" => ended'[t] # "no"
  BY <1>1, TablesUnchanged, Bounds DEF IInv, Send, server, history, TypeOK
<1>7. now' = now /\ now \in Nat
  BY <1>1, Bounds DEF Send, server, TypeOK
<1>8. PICK j \in Job : j = e
  BY <1>3
<1>9. JobOK(j)
  <2>1. /\ j.pc = "sent" /\ j.client = c /\ j.token = tok /\ j.uad = NoToken /\ j.new = NoToken
        /\ j.wasOver = (tok # NoToken /\ tok.tid \in over)
        /\ j.wasIdle = (tok # NoToken /\ now >= issued[tok.tid] + TokenExpiry)
    BY <1>8 DEF FreeSlot
  <2>2. tok # NoToken => TokenOK(tok)
    BY DEF IInv
  <2>3. j.wasOver => tok # NoToken /\ ended[tok.tid] # "no"
    BY <2>1, <1>1, <1>2, TokenFields, OverIsEnded
  <2>4. j.wasIdle => tok # NoToken /\ now >= tok.ts + TokenExpiry
    <3> SUFFICES ASSUME j.wasIdle PROVE tok # NoToken /\ now >= tok.ts + TokenExpiry
      OBVIOUS
    <3>1. tok # NoToken /\ now >= issued[tok.tid] + TokenExpiry
      BY <2>1
    <3>2. tok.tid \in Tids /\ tok.ts \in Nat
      BY <3>1, <1>2, TokenFields, Bounds
    <3>3. issued[tok.tid] \in Nat /\ tok.ts <= issued[tok.tid]
      BY <3>1, <3>2, <2>2, <1>1, Bounds DEF TokenOK, TypeOK
    <3> QED BY <3>1, <3>2, <3>3, <1>7, Bounds
  <2> HIDE DEF tok
  <2> QED BY <2>1, <2>2, <2>3, <2>4 DEF JobOK
<1>10. JobOK(j)'
  BY <1>1, <1>5, <1>6, <1>7, <1>9, JobKept
<1>11. UNCHANGED held
  BY DEF Send
<1>12. SetJob(p, j)
  BY <1>4, <1>8
<1> QED BY <1>5, <1>6, <1>7, <1>10, <1>11, <1>12, HeldKept, SlotStep

LEMMA DeliverInv ==
  ASSUME IInv, NEW p \in Slots, Deliver(p) \/ DeliverGo(p)
  PROVE  IInv'
<1>1. TypeOK /\ job[p] \in Job
  BY DEF IInv, TypeOK
<1>2. job[p].new \in Token \union {NoToken}
  BY <1>1 DEF Job
<1>3. held' \in [Clients -> Token \union {NoToken}]
  BY <1>1, <1>2, SessionConstants DEF Deliver, DeliverGo, TypeOK
<1>4. SetJob(p, FreeSlot)
  BY DEF Deliver, DeliverGo
<1>5. TypeOK'
  BY <1>1, <1>3, <1>4, FreeSlotOK DEF Deliver, DeliverGo, SetJob, TypeOK, server, history
<1>6. /\ TablesOK'
      /\ \A k \in Token : TokenOK(k) => TokenOK(k)'
      /\ \A t \in Tids : ended[t] # "no" => ended'[t] # "no"
  BY <1>1, TablesUnchanged, Bounds DEF IInv, Deliver, DeliverGo, server, history, TypeOK
<1>7. now' = now /\ now \in Nat
  BY <1>1, Bounds DEF Deliver, DeliverGo, server, TypeOK
<1>8. (\A c \in Clients : held[c] # NoToken => TokenOK(held[c]))'
  <2> SUFFICES ASSUME NEW c \in Clients, held'[c] # NoToken
               PROVE  TokenOK(held[c])'
    OBVIOUS
  <2>1. PICK k \in Token : k = held'[c]
    BY <1>3
  <2>2. k = held[c] \/ k = job[p].new
    BY <2>1, <1>1 DEF Deliver, DeliverGo, TypeOK
  <2>3. TokenOK(k)
    <3>1. held[c] # NoToken => TokenOK(held[c])
      BY DEF IInv
    <3>2. job[p].new # NoToken => TokenOK(job[p].new)
      BY DEF IInv, JobOK
    <3> QED BY <2>1, <2>2, <3>1, <3>2, SessionConstants
  <2>4. TokenOK(k)'
    BY <2>3, <1>6
  <2> QED BY <2>1, <2>4 DEF TokenOK
<1> QED BY <1>4, <1>5, <1>6, <1>7, <1>8, FreeSlotOK, SlotStep

LEMMA LoseInv ==
  ASSUME IInv, NEW p \in Slots, Lose(p)
  PROVE  IInv'
<1>1. TypeOK
  BY DEF IInv
<1>2. SetJob(p, FreeSlot) /\ UNCHANGED held
  BY DEF Lose
<1>3. TypeOK'
  BY <1>1, <1>2, FreeSlotOK DEF Lose, SetJob, TypeOK, server, history
<1>4. /\ TablesOK'
      /\ \A k \in Token : TokenOK(k) => TokenOK(k)'
      /\ \A t \in Tids : ended[t] # "no" => ended'[t] # "no"
  BY <1>1, TablesUnchanged, Bounds DEF IInv, Lose, server, history, TypeOK
<1>5. now' = now /\ now \in Nat
  BY <1>1, Bounds DEF Lose, server, TypeOK
<1> QED BY <1>2, <1>3, <1>4, <1>5, FreeSlotOK, HeldKept, SlotStep

LEMMA ReceiveInv ==
  ASSUME IInv, NEW p \in Slots, Receive(p)
  PROVE  IInv'
<1>1. TypeOK /\ job[p] \in Job /\ JobOK(job[p]) /\ job[p].pc = "sent"
  BY DEF IInv, TypeOK, Receive
<1>2. UNCHANGED <<now, SecretKey, TokenIds, logins, restarts, held, ended, issued>>
  BY DEF Receive, server, history
<1>3. now \in Nat /\ now' = now
  BY <1>1, <1>2, Bounds DEF TypeOK
<1>4. /\ TablesOK'
      /\ \A k \in Token : TokenOK(k) => TokenOK(k)'
      /\ \A t \in Tids : ended[t] # "no" => ended'[t] # "no"
  BY <1>1, <1>2, <1>3, TablesUnchanged DEF IInv
<1>5. job' \in [Slots -> Job] => TypeOK'
  BY <1>1, <1>2 DEF TypeOK
<1>a. CASE job[p].token = NoToken \/ job[p].token.key # SecretKey
  <2>a. CASE job[p].route \in AllowList
    <3> DEFINE e == [job[p] EXCEPT !.pc = "handle"]
    <3>1. SetJob(p, e)
      BY <1>a, <2>a DEF Receive
    <3>2. PICK j \in Job : j = e
      BY <1>1 DEF Job
    <3>3. TypeOK'
      BY <3>1, <3>2, <1>1, <1>5 DEF SetJob, TypeOK
    <3>4. JobOK(j)
      <4>1. /\ j.pc = "handle" /\ j.token = job[p].token /\ j.new = job[p].new
            /\ j.uad = job[p].uad /\ j.route = job[p].route /\ j.client = job[p].client
            /\ j.wasOver = job[p].wasOver /\ j.wasIdle = job[p].wasIdle
        BY <3>2, <1>1 DEF Job
      <4>2. job[p].uad = NoToken
        BY <1>1 DEF JobOK
      <4> QED BY <4>1, <4>2, <1>1, <2>a DEF JobOK
    <3>5. JobOK(j)'
      BY <3>3, <3>4, <1>1, <1>3, <1>4, JobKept
    <3> QED BY <3>1, <3>2, <3>3, <3>5, <1>2, <1>3, <1>4, HeldKept, SlotStep
  <2>b. CASE job[p].route \notin AllowList
    <3>1. Reply(p, "unauthorized", NoToken)
      BY <1>a, <2>b DEF Receive, Refuse
    <3>2. TypeOK'
      BY <3>1, <1>1, <1>5, ReplyType DEF Statuses
    <3>3. job[p].token # NoToken => ended'[job[p].token.tid] # "no"
      <4>1. job[p].token # NoToken => TokenOK(job[p].token)
        BY <1>1 DEF JobOK
      <4> QED BY <4>1, <1>a, <1>2 DEF TokenOK
    <3> QED BY <3>1, <3>2, <3>3, <1>2, <1>3, <1>4, ReplyStep DEF Statuses
  <2> QED BY <2>a, <2>b
<1>b. CASE ~(job[p].token = NoToken \/ job[p].token.key # SecretKey)
  <2> DEFINE e == [job[p] EXCEPT
                     !.pc = IF checkTimestamp(job[p].token.ts) THEN "checkid" ELSE "expired",
                     !.uad = job[p].token]
  <2>1. SetJob(p, e)
    BY <1>b DEF Receive
  <2>2. PICK j \in Job : j = e
    BY <1>1 DEF Job
  <2>3. TypeOK'
    BY <2>1, <2>2, <1>1, <1>5 DEF SetJob, TypeOK
  <2>4. JobOK(j)
    <3>1. /\ j.token = job[p].token /\ j.new = job[p].new
          /\ j.uad = job[p].token /\ j.route = job[p].route /\ j.client = job[p].client
          /\ j.wasOver = job[p].wasOver /\ j.wasIdle = job[p].wasIdle
          /\ j.pc = IF checkTimestamp(job[p].token.ts) THEN "checkid" ELSE "expired"
      BY <2>2, <1>1 DEF Job
    <3>2. j.pc = "checkid" => ~j.wasIdle
      <4>1. job[p].token.ts \in Nat /\ TokenExpiry \in Nat
        BY <1>1, <1>b, JobFields, TokenFields, Bounds
      <4>2. j.pc = "checkid" => now < job[p].token.ts + TokenExpiry
        BY <3>1 DEF checkTimestamp
      <4>3. job[p].wasIdle => now >= job[p].token.ts + TokenExpiry
        BY <1>1 DEF JobOK
      <4> QED BY <3>1, <4>1, <4>2, <4>3, <1>3
    <3> QED BY <3>1, <3>2, <1>1, <1>b DEF JobOK
  <2>5. JobOK(j)'
    BY <2>3, <2>4, <1>1, <1>3, <1>4, JobKept
  <2> QED BY <2>1, <2>2, <2>3, <2>5, <1>2, <1>3, <1>4, HeldKept, SlotStep
<1> QED BY <1>a, <1>b

(* DropExpired and Logout: the id is deleted and the session ended.        *)
LEMMA EndingASession ==
  ASSUME IInv, NEW k \in Token, TokenOK(k), NEW why \in {"logout", "expired"},
         TokenIds' = [TokenIds EXCEPT ![k.uid] = @ \ {k.tid}],
         EndSession(k.tid, why),
         UNCHANGED <<now, SecretKey, logins, issued>>
  PROVE  /\ TokenIds' \in [Users -> SUBSET Tids]
         /\ ended' \in [Tids -> {"no", "logout", "expired", "restart"}]
         /\ ended'[k.tid] # "no"
         /\ TablesOK'
         /\ \A h \in Token : TokenOK(h) => TokenOK(h)'
         /\ \A t \in Tids : ended[t] # "no" => ended'[t] # "no"
<1>1. TypeOK /\ TablesOK
  BY DEF IInv
<1>2. k.uid \in Users /\ k.tid \in Tids
  BY TokenFields
<1>3. TokenIds' \in [Users -> SUBSET Tids]
  BY <1>1, <1>2 DEF TypeOK
<1>4. ended' \in [Tids -> {"no", "logout", "expired", "restart"}]
  BY <1>1, <1>2 DEF TypeOK, EndSession
<1>5. ended'[k.tid] # "no" /\ \A t \in Tids : t # k.tid => ended'[t] = ended[t]
  BY <1>1, <1>2 DEF TypeOK, EndSession
<1>6. \A t \in Tids : ended[t] # "no" => ended'[t] # "no"
  BY <1>5
<1>7. \A u \in Users : TokenIds'[u] = IF u = k.uid THEN TokenIds[u] \ {k.tid} ELSE TokenIds[u]
  BY <1>1, <1>2 DEF TypeOK
<1>8. \A u \in Users : k.tid \notin TokenIds'[u]
  BY <1>7 DEF TokenOK
<1>9. TablesOK'
  <2>1. ASSUME NEW u \in Users, NEW t \in TokenIds'[u] PROVE t <= logins' /\ ended'[t] = "no"
    <3>1. t \in TokenIds[u] /\ t # k.tid
      BY <1>7, <1>8
    <3>2. t \in Tids
      BY <3>1, <1>1 DEF TypeOK
    <3> QED BY <3>1, <3>2, <1>1, <1>5 DEF TablesOK
  <2>2. \A t \in Tids : ended'[t] # "no" => t <= logins'
    BY <1>1, <1>5 DEF TablesOK, TokenOK
  <2>3. \A t \in Tids : issued'[t] <= now'
    BY <1>1 DEF TablesOK
  <2> QED BY <2>1, <2>2, <2>3 DEF TablesOK
<1>10. ASSUME NEW h \in Token, TokenOK(h) PROVE TokenOK(h)'
  <2>1. h.uid \in Users /\ h.tid \in Tids
    BY TokenFields
  <2>2. \A u \in Users : h.tid \in TokenIds'[u] => u = h.uid
    BY <1>7, <1>10 DEF TokenOK
  <2>3. ended'[h.tid] # "no" \/ (h.tid \in TokenIds'[h.uid] /\ h.key = SecretKey')
    BY <1>5, <1>7, <1>10, <2>1 DEF TokenOK
  <2> QED BY <1>10, <2>2, <2>3 DEF TokenOK
<1> QED BY <1>3, <1>4, <1>5, <1>6, <1>9, <1>10

LEMMA DropExpiredInv ==
  ASSUME IInv, NEW p \in Slots, DropExpired(p)
  PROVE  IInv'
<1>1. TypeOK /\ job[p] \in Job /\ JobOK(job[p]) /\ job[p].pc = "expired"
  BY DEF IInv, TypeOK, DropExpired
<1>2. job[p].uad # NoToken /\ job[p].uad = job[p].token
  BY <1>1 DEF JobOK
<1>3. PICK k \in Token : k = job[p].uad
  BY <1>1, <1>2, JobFields
<1>4. TokenOK(k)
  BY <1>1, <1>2, <1>3 DEF JobOK
<1>5. /\ TokenIds' = [TokenIds EXCEPT ![k.uid] = @ \ {k.tid}]
      /\ EndSession(k.tid, "expired")
      /\ Reply(p, "unauthorized", NoToken)
      /\ UNCHANGED <<now, SecretKey, logins, restarts, held, issued>>
  BY <1>3 DEF DropExpired, Refuse
<1>6. /\ TokenIds' \in [Users -> SUBSET Tids]
      /\ ended' \in [Tids -> {"no", "logout", "expired", "restart"}]
      /\ ended'[k.tid] # "no"
      /\ TablesOK'
      /\ \A h \in Token : TokenOK(h) => TokenOK(h)'
      /\ \A t \in Tids : ended[t] # "no" => ended'[t] # "no"
  BY <1>4, <1>5, EndingASession
<1>7. TypeOK'
  BY <1>1, <1>5, <1>6, ReplyType DEF TypeOK, Statuses
<1>8. now <= now'
  BY <1>1, <1>5, Bounds DEF TypeOK
<1> QED BY <1>2, <1>3, <1>5, <1>6, <1>7, <1>8, ReplyStep DEF Statuses

LEMMA LogoutInv ==
  ASSUME IInv, NEW p \in Slots, Logout(p)
  PROVE  IInv'
<1>1. TypeOK /\ job[p] \in Job /\ JobOK(job[p])
      /\ job[p].pc = "handle" /\ job[p].route = "logout"
  BY DEF IInv, TypeOK, Logout, Handling
<1>2. job[p].uad # NoToken /\ job[p].uad = job[p].token
  BY <1>1 DEF JobOK, AllowList
<1>3. PICK k \in Token : k = job[p].uad
  BY <1>1, <1>2, JobFields
<1>4. TokenOK(k)
  BY <1>1, <1>2, <1>3 DEF JobOK
<1>5. /\ TokenIds' = [TokenIds EXCEPT ![k.uid] = @ \ {k.tid}]
      /\ EndSession(k.tid, "logout")
      /\ Reply(p, "ok", NoToken)
      /\ UNCHANGED <<now, SecretKey, logins, restarts, held, issued>>
  BY <1>3 DEF Logout, Answer
<1>6. /\ TokenIds' \in [Users -> SUBSET Tids]
      /\ ended' \in [Tids -> {"no", "logout", "expired", "restart"}]
      /\ TablesOK'
      /\ \A h \in Token : TokenOK(h) => TokenOK(h)'
      /\ \A t \in Tids : ended[t] # "no" => ended'[t] # "no"
  BY <1>4, <1>5, EndingASession
<1>7. TypeOK'
  BY <1>1, <1>5, <1>6, ReplyType DEF TypeOK, Statuses
<1>8. now <= now'
  BY <1>1, <1>5, Bounds DEF TypeOK
<1> QED BY <1>5, <1>6, <1>7, <1>8, ReplyStep DEF Statuses

LEMMA CheckTokenIdInv ==
  ASSUME IInv, NEW p \in Slots, CheckTokenId(p)
  PROVE  IInv'
<1>1. TypeOK /\ TablesOK /\ job[p] \in Job /\ JobOK(job[p]) /\ job[p].pc = "checkid"
  BY DEF IInv, TypeOK, CheckTokenId
<1>2. job[p].uad # NoToken /\ job[p].uad = job[p].token /\ ~job[p].wasIdle
  BY <1>1 DEF JobOK
<1>3. PICK k \in Token : k = job[p].uad
  BY <1>1, <1>2, JobFields
<1>4. TokenOK(k) /\ k.uid \in Users /\ k.tid \in Tids
  BY <1>1, <1>2, <1>3, TokenFields DEF JobOK
<1>5. UNCHANGED <<now, SecretKey, TokenIds, logins, restarts, held, ended, issued>>
  BY DEF CheckTokenId, server, history
<1>6. now \in Nat /\ now' = now
  BY <1>1, <1>5, Bounds DEF TypeOK
<1>7. /\ TablesOK'
      /\ \A h \in Token : TokenOK(h) => TokenOK(h)'
      /\ \A t \in Tids : ended[t] # "no" => ended'[t] # "no"
  BY <1>1, <1>5, <1>6, TablesUnchanged
<1>8. job' \in [Slots -> Job] => TypeOK'
  BY <1>1, <1>5 DEF TypeOK
<1>a. CASE k.tid \notin TokenIds[k.uid]
  <2>1. Reply(p, "unauthorized", NoToken)
    BY <1>3, <1>a DEF CheckTokenId, Refuse
  <2>2. TypeOK'
    BY <2>1, <1>1, <1>8, ReplyType DEF Statuses
  <2>3. ended'[job[p].token.tid] # "no"
    BY <1>2, <1>3, <1>4, <1>5, <1>a DEF TokenOK
  <2> QED BY <2>1, <2>2, <2>3, <1>5, <1>6, <1>7, ReplyStep DEF Statuses
<1>b. CASE k.tid \in TokenIds[k.uid] /\ job[p].route = "admin" /\ k.uid \notin Admins
  <2>1. Reply(p, "forbidden", NoToken)
    BY <1>3, <1>b DEF CheckTokenId, Refuse
  <2>2. TypeOK'
    BY <2>1, <1>1, <1>8, ReplyType DEF Statuses
  <2> QED BY <2>1, <2>2, <1>5, <1>6, <1>7, ReplyStep DEF Statuses
<1>c. CASE k.tid \in TokenIds[k.uid] /\ ~(job[p].route = "admin" /\ k.uid \notin Admins)
  <2> DEFINE e == [job[p] EXCEPT !.pc = "handle"]
  <2>1. SetJob(p, e)
    BY <1>3, <1>c DEF CheckTokenId
  <2>2. PICK j \in Job : j = e
    BY <1>1 DEF Job
  <2>3. TypeOK'
    BY <2>1, <2>2, <1>1, <1>8 DEF SetJob, TypeOK
  <2>4. JobOK(j)
    <3>1. /\ j.pc = "handle" /\ j.token = job[p].token /\ j.new = job[p].new
          /\ j.uad = job[p].uad /\ j.route = job[p].route /\ j.client = job[p].client
          /\ j.wasOver = job[p].wasOver /\ j.wasIdle = job[p].wasIdle
      BY <2>2, <1>1 DEF Job
    <3>2. ended[k.tid] = "no"
      BY <1>1, <1>4, <1>c DEF TablesOK
    <3>3. ~job[p].wasOver
      BY <3>2, <1>1, <1>2, <1>3 DEF JobOK
    <3> QED BY <3>1, <3>3, <1>1, <1>2 DEF JobOK
  <2>5. JobOK(j)'
    BY <2>3, <2>4, <1>1, <1>6, <1>7, JobKept
  <2> QED BY <2>1, <2>2, <2>3, <2>5, <1>5, <1>6, <1>7, HeldKept, SlotStep
<1> QED BY <1>a, <1>b, <1>c

(* A fresh token id: nothing in circulation carries it yet.                *)
LEMMA LoginInv ==
  ASSUME IInv, NEW p \in Slots, Login(p)
  PROVE  IInv'
<1>1. TypeOK /\ TablesOK /\ job[p] \in Job /\ JobOK(job[p]) /\ job[p].pc = "handle"
  BY DEF IInv, TypeOK, Login, Handling
<1>2. UNCHANGED <<now, SecretKey, restarts, held, ended>>
  BY DEF Login
<1>3. now \in Nat /\ now' = now /\ now \in 0 .. MaxTime /\ SecretKey \in 0 .. MaxRestarts
  BY <1>1, <1>2, Bounds DEF TypeOK
<1>a. CASE Refuse(p, "denied") /\ UNCHANGED <<logins, TokenIds, issued>>
  <2>1. Reply(p, "denied", NoToken)
    BY <1>a DEF Refuse
  <2>2. TypeOK'
    BY <2>1, <1>a, <1>1, <1>2, ReplyType DEF TypeOK, Statuses
  <2>3. /\ TablesOK'
        /\ \A h \in Token : TokenOK(h) => TokenOK(h)'
        /\ \A t \in Tids : ended[t] # "no" => ended'[t] # "no"
    BY <1>a, <1>1, <1>2, <1>3, TablesUnchanged
  <2> QED BY <2>1, <2>2, <2>3, <1>2, <1>3, ReplyStep DEF Statuses
<1>b. CASE ~(Refuse(p, "denied") /\ UNCHANGED <<logins, TokenIds, issued>>)
  <2>0. job[p].client \in Clients
    BY <1>1 DEF JobOK
  <2>1. PICK u \in Users : u = User[job[p].client]
    BY <2>0 DEF Users
  <2>2. logins \in Nat /\ logins < MaxLogins
    BY <1>b, <1>1, SessionConstants DEF Login, TypeOK
  <2>3. PICK t \in Tids : t = logins + 1
    BY <2>2, SessionConstants DEF Tids
  <2>4. PICK k \in Token : k = tokenResponse(u, t)
    BY <1>3 DEF Token, tokenResponse
  <2>5. k.uid = u /\ k.tid = t /\ k.ts = now /\ k.key = SecretKey
    BY <2>4 DEF tokenResponse
  <2>6. /\ logins' = t
        /\ TokenIds' = [TokenIds EXCEPT ![u] = @ \union {t}]
        /\ issued' = [issued EXCEPT ![t] = now]
        /\ Reply(p, "ok", k)
    BY <1>b, <2>1, <2>3, <2>4 DEF Login, Answer
  <2>7. \A s \in Users : TokenIds'[s] = IF s = u THEN TokenIds[s] \union {t} ELSE TokenIds[s]
    BY <2>6, <1>1 DEF TypeOK
  <2>8. \A i \in Tids : issued'[i] = IF i = t THEN now ELSE issued[i]
    BY <2>6, <1>1 DEF TypeOK
  <2>9. \A i \in Tids : i <= logins => i <= t /\ i # t
    BY <2>2, <2>3, Bounds
  <2>10. ended[t] = "no" /\ \A s \in Users : t \notin TokenIds[s]
    BY <2>2, <2>3, <1>1, Bounds DEF TablesOK
  <2>11. TypeOK'
    <3>1. TokenIds' \in [Users -> SUBSET Tids] /\ issued' \in [Tids -> 0 .. MaxTime]
      BY <2>6, <1>1, <1>3 DEF TypeOK
    <3>2. logins' \in 0 .. MaxLogins
      BY <2>3, <2>6, <2>2, SessionConstants
    <3>3. job' \in [Slots -> Job]
      BY <2>6, <1>1, ReplyType DEF Statuses
    <3> QED BY <3>1, <3>2, <3>3, <1>1, <1>2 DEF TypeOK
  <2>12. TablesOK'
    <3>1. ASSUME NEW s \in Users, NEW i \in TokenIds'[s] PROVE i <= logins' /\ ended'[i] = "no"
      <4>1. CASE i = t
        BY <4>1, <2>6, <2>10, <1>2, Bounds
      <4>2. CASE i # t
        <5>1. i \in TokenIds[s] /\ i \in Tids
          BY <4>2, <2>7, <1>1 DEF TypeOK
        <5> QED BY <5>1, <2>6, <2>9, <1>1, <1>2 DEF TablesOK
      <4> QED BY <4>1, <4>2
    <3>2. \A i \in Tids : ended'[i] # "no" => i <= logins'
      BY <2>6, <2>9, <1>1, <1>2 DEF TablesOK
    <3>3. \A i \in Tids : issued'[i] <= now'
      BY <2>8, <1>1, <1>3 DEF TablesOK
    <3> QED BY <3>1, <3>2, <3>3 DEF TablesOK
  <2>13. ASSUME NEW h \in Token, TokenOK(h) PROVE TokenOK(h)'
    <3>1. h.tid \in Tids /\ h.uid \in Users /\ h.tid # t /\ h.tid <= t
      BY <2>9, <2>13, TokenFields DEF TokenOK
    <3>2. h.ts <= issued'[h.tid]
      BY <3>1, <2>8, <2>13 DEF TokenOK
    <3>3. \A s \in Users : h.tid \in TokenIds'[s] <=> h.tid \in TokenIds[s]
      BY <3>1, <2>7
    <3>4. \A s \in Users : h.tid \in TokenIds'[s] => s = h.uid
      BY <3>3, <2>13 DEF TokenOK
    <3>5. ended'[h.tid] # "no" \/ (h.tid \in TokenIds'[h.uid] /\ h.key = SecretKey')
      BY <3>1, <3>3, <2>13, <1>2 DEF TokenOK
    <3> QED BY <3>1, <3>2, <3>4, <3>5, <2>6 DEF TokenOK
  <2>14. TokenOK(k)'
    <3>1. k.tid <= logins' /\ k.ts <= issued'[k.tid]
      BY <2>5, <2>6, <2>8, <1>3, Bounds
    <3>2. \A s \in Users : k.tid \in TokenIds'[s] => s = k.uid
      BY <2>5, <2>7, <2>10
    <3>3. k.tid \in TokenIds'[k.uid] /\ k.key = SecretKey'
      BY <2>5, <2>7, <1>2
    <3> QED BY <3>1, <3>2, <3>3 DEF TokenOK
  <2> QED BY <2>6, <2>11, <2>12, <2>13, <2>14, <1>2, <1>3, ReplyStep DEF Statuses
<1> QED BY <1>a, <1>b

LEMMA RefreshInv ==
  ASSUME IInv, NEW p \in Slots, Refresh(p)
  PROVE  IInv'
<1>1. TypeOK /\ TablesOK /\ job[p] \in Job /\ JobOK(job[p])
      /\ job[p].pc = "handle" /\ job[p].route = "refresh"
  BY DEF IInv, TypeOK, Refresh, Handling
<1>2. job[p].uad # NoToken /\ job[p].uad = job[p].token
  BY <1>1 DEF JobOK, AllowList
<1>3. PICK old \in Token : old = job[p].uad
  BY <1>1, <1>2, JobFields
<1>4. TokenOK(old) /\ old.uid \in Users /\ old.tid \in Tids
  BY <1>1, <1>2, <1>3, TokenFields DEF JobOK
<1>5. UNCHANGED <<now, SecretKey, TokenIds, logins, restarts, held, ended>>
  BY DEF Refresh, server
<1>6. now \in Nat /\ now' = now /\ now \in 0 .. MaxTime /\ SecretKey \in 0 .. MaxRestarts
  BY <1>1, <1>5, Bounds DEF TypeOK
<1>7. PICK k \in Token : k = tokenResponse(old.uid, old.tid)
  BY <1>4, <1>6 DEF Token, tokenResponse
<1>8. k.uid = old.uid /\ k.tid = old.tid /\ k.ts = now /\ k.key = SecretKey
  BY <1>7 DEF tokenResponse
<1>9. issued' = [issued EXCEPT ![old.tid] = now] /\ Reply(p, "ok", k)
  BY <1>3, <1>7 DEF Refresh, Answer
<1>10. \A i \in Tids : issued'[i] = IF i = old.tid THEN now ELSE issued[i]
  BY <1>9, <1>1 DEF TypeOK
<1>11. TypeOK'
  <2>1. issued' \in [Tids -> 0 .. MaxTime]
    BY <1>9, <1>1, <1>6 DEF TypeOK
  <2>2. job' \in [Slots -> Job]
    BY <1>9, <1>1, ReplyType DEF Statuses
  <2> QED BY <2>1, <2>2, <1>1, <1>5 DEF TypeOK
<1>12. TablesOK'
  <2>1. \A i \in Tids : issued'[i] <= now'
    BY <1>10, <1>1, <1>6 DEF TablesOK
  <2> QED BY <2>1, <1>1, <1>5 DEF TablesOK
<1>13. ASSUME NEW h \in Token, TokenOK(h) PROVE TokenOK(h)'
  <2>1. h.tid \in Tids /\ h.ts \in Nat
    BY TokenFields, Bounds
  <2>2. issued[h.tid] \in Nat /\ issued[h.tid] <= now
    BY <2>1, <1>1, Bounds DEF TypeOK, TablesOK
  <2>3. h.ts <= issued'[h.tid]
    BY <2>1, <2>2, <1>6, <1>10, <1>13 DEF TokenOK
  <2> QED BY <2>3, <1>5, <1>13 DEF TokenOK
<1>14. TokenOK(k)'
  <2>1. k.ts <= issued'[k.tid]
    BY <1>4, <1>6, <1>8, <1>10
  <2> QED BY <2>1, <1>4, <1>5, <1>8 DEF TokenOK
<1> QED BY <1>5, <1>6, <1>9, <1>11, <1>12, <1>13, <1>14, ReplyStep DEF Statuses

LEMMA ServeInv ==
  ASSUME IInv, NEW p \in Slots, Serve(p)
  PROVE  IInv'
<1>1. TypeOK
  BY DEF IInv
<1>2. Reply(p, "ok", NoToken)
      /\ UNCHANGED <<now, SecretKey, TokenIds, logins, restarts, held, ended, issued>>
  BY DEF Serve, Answer, server, history
<1>3. now \in Nat /\ now' = now
  BY <1>1, <1>2, Bounds DEF TypeOK
<1>4. TypeOK'
  BY <1>1, <1>2, ReplyType DEF TypeOK, Statuses
<1>5. /\ TablesOK'
      /\ \A h \in Token : TokenOK(h) => TokenOK(h)'
      /\ \A t \in Tids : ended[t] # "no" => ended'[t] # "no"
  BY <1>1, <1>2, <1>3, TablesUnchanged DEF IInv
<1> QED BY <1>2, <1>3, <1>4, <1>5, ReplyStep DEF Statuses

(* Steps after which every slot is as before, or free.                     *)
LEMMA SlotsKeptOrFreed ==
  ASSUME IInv, TypeOK', TablesOK',
         \A k \in Token : TokenOK(k) => TokenOK(k)',
         \A t \in Tids : ended[t] # "no" => ended'[t] # "no",
         now <= now', UNCHANGED held,
         \A p \in Slots : job'[p] = job[p] \/ job'[p] = FreeSlot
  PROVE  IInv'
<1>1. ASSUME NEW q \in Slots PROVE JobOK(job[q])'
  <2>1. CASE job'[q] = FreeSlot
    <3>1. JobOK(FreeSlot)'
      BY FreeSlotOK
    <3> QED BY <2>1, <3>1 DEF JobOK, TokenOK, FreeSlot
  <2>2. CASE job'[q] = job[q]
    <3>1. PICK r \in Job : r = job[q]
      BY DEF IInv, TypeOK
    <3>2. JobOK(r)
      BY <3>1 DEF IInv
    <3>3. JobOK(r)'
      BY <3>2, JobKept DEF IInv
    <3>4. job'[q] = r
      BY <2>2, <3>1
    <3> QED BY <3>3, <3>4 DEF JobOK, TokenOK
  <2> QED BY <2>1, <2>2
<1> QED BY <1>1, HeldKept DEF IInv

LEMMA TickInv ==
  ASSUME IInv, Tick
  PROVE  IInv'
<1>1. TypeOK /\ now \in Nat
  BY Bounds DEF IInv, TypeOK
<1>2. now' = now + 1 /\ now < MaxTime
      /\ UNCHANGED <<SecretKey, TokenIds, logins, restarts, held, job, ended, issued>>
  BY DEF Tick, history
<1>3. now' \in 0 .. MaxTime /\ now <= now' /\ now' \in Nat
  BY <1>1, <1>2, SessionConstants
<1>4. TypeOK'
  BY <1>1, <1>2, <1>3 DEF TypeOK
<1>5. /\ TablesOK'
      /\ \A h \in Token : TokenOK(h) => TokenOK(h)'
      /\ \A t \in Tids : ended[t] # "no" => ended'[t] # "no"
  BY <1>1, <1>2, <1>3, TablesUnchanged DEF IInv
<1> QED BY <1>2, <1>3, <1>4, <1>5, SlotsKeptOrFreed

LEMMA RestartInv ==
  ASSUME IInv, Restart
  PROVE  IInv'
<1>1. TypeOK /\ TablesOK
  BY DEF IInv
<1>2. UNCHANGED <<now, logins, held, issued>> /\ TokenIds' = [u \in Users |-> {}]
  BY DEF Restart
<1>3. restarts' \in 0 .. MaxRestarts /\ SecretKey' \in 0 .. MaxRestarts
  BY <1>1, SessionConstants DEF Restart, TypeOK
<1>4. job' \in [Slots -> Job] /\ \A p \in Slots : job'[p] = job[p] \/ job'[p] = FreeSlot
  BY <1>1, FreeSlotOK DEF Restart, TypeOK
<1>5. \A t \in Tids : ended'[t] = IF t <= logins /\ ended[t] = "no" THEN "restart" ELSE ended[t]
  BY DEF Restart
<1>6. ended' \in [Tids -> {"no", "logout", "expired", "restart"}]
  BY <1>1 DEF Restart, TypeOK
<1>7. TypeOK'
  BY <1>1, <1>2, <1>3, <1>4, <1>6 DEF TypeOK
<1>8. TablesOK'
  BY <1>1, <1>2, <1>5 DEF TablesOK
<1>9. \A t \in Tids : ended[t] # "no" => ended'[t] # "no"
  BY <1>5
<1>10. ASSUME NEW k \in Token, TokenOK(k) PROVE TokenOK(k)'
  <2>1. k.tid \in Tids /\ k.tid <= logins
    BY <1>10, TokenFields DEF TokenOK
  <2>2. ended'[k.tid] # "no"
    BY <2>1, <1>5
  <2> QED BY <2>2, <1>2, <1>10 DEF TokenOK
<1>11. now <= now'
  BY <1>1, <1>2, Bounds DEF TypeOK
<1> QED BY <1>2, <1>4, <1>7, <1>8, <1>9, <1>10, <1>11, SlotsKeptOrFreed

LEMMA StutterInv ==
  ASSUME IInv, UNCHANGED vars
  PROVE  IInv'
BY DEF IInv, vars, TypeOK, TablesOK, TokenOK, JobOK

LEMMA InitInv == Init => IInv
<1> SUFFICES ASSUME Init PROVE IInv
  OBVIOUS
<1>1. TypeOK
  BY FreeSlotOK, SessionConstants DEF Init, TypeOK
<1>2. TablesOK
  BY DEF Init, TablesOK
<1>3. \A p \in Slots : JobOK(job[p])
  <2> SUFFICES ASSUME NEW p \in Slots PROVE JobOK(job[p])
    OBVIOUS
  <2>1. job[p] = FreeSlot
    BY DEF Init
  <2> QED BY <2>1, FreeSlotOK
<1> QED BY <1>1, <1>2, <1>3 DEF Init, IInv

LEMMA StepInv == IInv /\ [Next]_vars => IInv'
<1> SUFFICES ASSUME IInv, [Next]_vars PROVE IInv'
  OBVIOUS
<1>1. CASE Tick
  BY <1>1, TickInv
<1>2. CASE Restart
  BY <1>2, RestartInv
<1>3. ASSUME NEW p \in Slots, NEW c \in Clients, NEW route \in Routes, Send(p, c, route)
      PROVE  IInv'
  BY <1>3, SendInv
<1>4. ASSUME NEW p \in Slots, Lose(p) PROVE IInv'
  BY <1>4, LoseInv
<1>5. ASSUME NEW p \in Slots, Progress(p) PROVE IInv'
  BY <1>5, DeliverInv, ReceiveInv, DropExpiredInv, CheckTokenIdInv,
     LoginInv, LogoutInv, RefreshInv, ServeInv DEF Progress
<1>6. CASE UNCHANGED vars
  BY <1>6, StutterInv
<1> QED BY <1>1, <1>2, <1>3, <1>4, <1>5, <1>6 DEF Next

LEMMA Invariance == Spec => []IInv
BY InitInv, StepInv, PTL DEF Spec

-----------------------------------------------------------------------------
(* Types, for every value of the constants.                                *)
THEOREM TypeCorrect == Spec => []TypeOK
<1>1. IInv => TypeOK
  BY DEF IInv
<1> QED BY <1>1, Invariance, PTL

(* No refresh, delayed request or restart revives a session that a logout, *)
(* an expired token or a restart has ended.                                *)
THEOREM EndedSessionsStayEnded == Spec => []SessionsStayOver
<1>1. IInv => SessionsStayOver
  BY DEF IInv, JobOK, SessionsStayOver
<1> QED BY <1>1, Invariance, PTL

(* A session is served at most TokenExpiry past its last token, whatever   *)
(* TokenExpiry is.                                                         *)
THEOREM IdleSessionsEnd == Spec => []IdleSessionsExpire
<1>1. IInv => IdleSessionsExpire
  BY DEF IInv, JobOK, IdleSessionsExpire
<1> QED BY <1>1, Invariance, PTL

(* The gate refuses no token of a session that is not over, whatever the   *)
(* other clients of the user do.                                           *)
THEOREM RefusalsAreJustified == Spec => []RefusedOnlyWhenOver
<1>1. IInv => RefusedOnlyWhenOver
  <2> SUFFICES ASSUME IInv, NEW p \in Slots, job[p].pc = "reply",
                      job[p].status = "unauthorized", job[p].token # NoToken
               PROVE  job[p].token.tid \in over
    BY DEF RefusedOnlyWhenOver
  <2>1. TypeOK /\ job[p] \in Job
    BY DEF IInv, TypeOK
  <2>2. job[p].token.tid \in Tids
    BY <2>1, JobFields, TokenFields
  <2>3. ended[job[p].token.tid] # "no"
    BY DEF IInv, JobOK
  <2> QED BY <2>1, <2>2, <2>3, OverIsEnded
<1> QED BY <1>1, Invariance, PTL

(* No handler that needs a user runs without one.                          *)
THEOREM HandlersKnowTheirUser == Spec => []UserKnownToHandlers
<1>1. IInv => UserKnownToHandlers
  BY DEF IInv, JobOK, UserKnownToHandlers, AllowList
<1> QED BY <1>1, Invariance, PTL
-----------------------------------------------------------------------------
(* What it takes to break two promises of the documentation.  The runs     *)
(* old_token and login_with_token show them broken; these theorems say     *)
(* that nothing but a refresh, and nothing but a token sent with a login,  *)
(* can do it.                                                              *)

NoRefresh == \A p \in Slots : ~Refresh(p)

(* Without refreshes a session has one token, so that an expired one takes *)
(* no other down with it.                                                  *)
OnlyToken(k) == k.ts = issued[k.tid]

OneTokenInv ==
  /\ \A t \in Tids : ended[t] = "expired" => now >= issued[t] + TokenExpiry
  /\ \A c \in Clients : held[c] # NoToken => OnlyToken(held[c])
  /\ \A p \in Slots :
       /\ job[p].token # NoToken => OnlyToken(job[p].token)
       /\ job[p].new # NoToken => OnlyToken(job[p].new)
       /\ job[p].pc = "expired" => now >= job[p].uad.ts + TokenExpiry

LEMMA TokenTimes ==
  ASSUME TypeOK, NEW k \in Token
  PROVE  k.tid \in Tids /\ k.ts \in Nat /\ issued[k.tid] \in Nat /\ now \in Nat /\ TokenExpiry \in Nat
<1>1. k.tid \in Tids /\ k.ts \in 0 .. MaxTime
  BY TokenFields
<1>2. issued[k.tid] \in 0 .. MaxTime /\ now \in 0 .. MaxTime
  BY <1>1 DEF TypeOK
<1> QED BY <1>1, <1>2, Bounds

(* What a step may do: date no token id that was handed out again, end a   *)
(* session as expired only when it has expired.                            *)
Aging ==
  /\ \A t \in Tids : t <= logins => issued'[t] = issued[t]
  /\ now <= now'
  /\ \A t \in Tids : ended'[t] = "expired" =>
       ended[t] = "expired" \/ (t <= logins /\ now >= issued[t] + TokenExpiry)

LEMMA AgedTimes ==
  ASSUME IInv, IInv', OneTokenInv, Aging
  PROVE  /\ \A t \in Tids : ended'[t] = "expired" => now' >= issued'[t] + TokenExpiry
         /\ \A k \in Token : TokenOK(k) /\ k.ts = issued[k.tid] => k.ts = issued'[k.tid]
         /\ \A k \in Token : now >= k.ts + TokenExpiry => now' >= k.ts + TokenExpiry
<1>1. now \in Nat /\ now' \in Nat /\ TokenExpiry \in Nat /\ now <= now'
  BY Bounds DEF IInv, TypeOK, Aging
<1>2. ASSUME NEW t \in Tids, ended'[t] = "expired" PROVE now' >= issued'[t] + TokenExpiry
  <2>1. t <= logins /\ now >= issued[t] + TokenExpiry
    BY <1>2 DEF Aging, OneTokenInv, IInv, TablesOK
  <2>2. issued'[t] = issued[t] /\ issued[t] \in Nat
    BY <2>1, Bounds DEF Aging, IInv, TypeOK
  <2> QED BY <1>1, <2>1, <2>2
<1>3. ASSUME NEW k \in Token, TokenOK(k), k.ts = issued[k.tid] PROVE k.ts = issued'[k.tid]
  BY <1>3, TokenFields DEF TokenOK, Aging
<1>4. ASSUME NEW k \in Token, now >= k.ts + TokenExpiry PROVE now' >= k.ts + TokenExpiry
  <2>1. k.ts \in Nat
    BY TokenTimes DEF IInv
  <2> QED BY <1>1, <1>4, <2>1
<1> QED BY <1>2, <1>3, <1>4

(* A slot that keeps its request, or is freed, keeps its tokens.           *)
LEMMA AgedSlot ==
  ASSUME IInv, IInv', OneTokenInv, Aging, NEW q \in Slots,
         job'[q] = job[q] \/ job'[q] = FreeSlot
  PROVE  /\ job'[q].token # NoToken => job'[q].token.ts = issued'[job'[q].token.tid]
         /\ job'[q].new # NoToken => job'[q].new.ts = issued'[job'[q].new.tid]
         /\ job'[q].pc = "expired" => now' >= job'[q].uad.ts + TokenExpiry
<1>1. CASE job'[q] = FreeSlot
  BY <1>1 DEF FreeSlot
<1>2. CASE job'[q] = job[q]
  <2>1. job[q] \in Job /\ JobOK(job[q])
    BY DEF IInv, TypeOK
  <2>2. /\ job[q].token # NoToken => job[q].token \in Token /\ TokenOK(job[q].token)
        /\ job[q].new # NoToken => job[q].new \in Token /\ TokenOK(job[q].new)
        /\ job[q].pc = "expired" => job[q].uad \in Token
    BY <2>1, JobFields DEF JobOK
  <2>3. /\ job[q].token # NoToken => job[q].token.ts = issued[job[q].token.tid]
        /\ job[q].new # NoToken => job[q].new.ts = issued[job[q].new.tid]
        /\ job[q].pc = "expired" => now >= job[q].uad.ts + TokenExpiry
    BY DEF OneTokenInv, OnlyToken
  <2> QED BY <1>2, <2>2, <2>3, AgedTimes
<1> QED BY <1>1, <1>2

LEMMA AgedHeld ==
  ASSUME IInv, IInv', OneTokenInv, Aging, NEW c \in Clients, held'[c] = held[c], held[c] # NoToken
  PROVE  held'[c].ts = issued'[held'[c].tid]
<1>1. held[c] \in Token /\ TokenOK(held[c]) /\ held[c].ts = issued[held[c].tid]
  BY DEF IInv, TypeOK, OneTokenInv, OnlyToken
<1> QED BY <1>1, AgedTimes

(* A step of one slot.                                                     *)
LEMMA OneTokenStep ==
  ASSUME IInv, IInv', OneTokenInv, Aging, NEW p \in Slots, NEW j, SetJob(p, j),
         j.token # NoToken => j.token.ts = issued'[j.token.tid],
         j.new # NoToken => j.new.ts = issued'[j.new.tid],
         j.pc = "expired" => now' >= j.uad.ts + TokenExpiry,
         \A c \in Clients : held'[c] # NoToken => held'[c].ts = issued'[held'[c].tid]
  PROVE  OneTokenInv'
<1>1. ASSUME NEW q \in Slots
      PROVE  /\ job'[q].token # NoToken => job'[q].token.ts = issued'[job'[q].token.tid]
             /\ job'[q].new # NoToken => job'[q].new.ts = issued'[job'[q].new.tid]
             /\ job'[q].pc = "expired" => now' >= job'[q].uad.ts + TokenExpiry
  <2>1. job'[q] = IF q = p THEN j ELSE job[q]
    BY DEF SetJob, IInv, TypeOK
  <2>2. CASE q = p
    BY <2>1, <2>2
  <2>3. CASE q # p
    BY <2>1, <2>3, AgedSlot
  <2> QED BY <2>2, <2>3
<1>2. \A t \in Tids : ended'[t] = "expired" => now' >= issued'[t] + TokenExpiry
  BY AgedTimes
<1> QED BY <1>1, <1>2 DEF OneTokenInv, OnlyToken

(* The steps that leave times and ends alone.                              *)
LEMMA TimesUnchanged ==
  ASSUME IInv, UNCHANGED <<now, ended, issued>>
  PROVE  Aging
<1>1. now \in Nat
  BY Bounds DEF IInv, TypeOK
<1> QED BY <1>1 DEF Aging

(* The slot of a reply: the token refused, and the one it brings.          *)
LEMMA ReplyOneToken ==
  ASSUME IInv, IInv', OneTokenInv, Aging, NEW p \in Slots, NEW status \in Statuses,
         NEW tok \in Token \union {NoToken}, Reply(p, status, tok),
         tok # NoToken => tok.ts = issued'[tok.tid], UNCHANGED held
  PROVE  OneTokenInv'
<1>1. PICK j \in Job :
        /\ SetJob(p, j)
        /\ j.pc = "reply" /\ j.status = status /\ j.new = tok /\ j.uad = NoToken
        /\ ~j.wasOver /\ ~j.wasIdle
        /\ j.token = IF status = "unauthorized" THEN job[p].token ELSE NoToken
  BY ReplyType DEF IInv
<1>2. j.token # NoToken => j.token.ts = issued'[j.token.tid]
  <2> SUFFICES ASSUME j.token # NoToken PROVE j.token.ts = issued'[j.token.tid]
    OBVIOUS
  <2>1. j.token = job[p].token
    BY <1>1
  <2>2. j.token \in Token /\ TokenOK(j.token) /\ j.token.ts = issued[j.token.tid]
    BY <2>1, JobFields DEF IInv, JobOK, OneTokenInv, OnlyToken
  <2> QED BY <2>2, AgedTimes
<1>3. \A c \in Clients : held'[c] # NoToken => held'[c].ts = issued'[held'[c].tid]
  BY AgedHeld
<1> QED BY <1>1, <1>2, <1>3, OneTokenStep

(* Sending, moving on, delivering and losing: no time and no end changes.  *)
LEMMA CirculationOneToken ==
  ASSUME IInv, IInv', OneTokenInv, NEW p \in Slots,
         \/ \E c \in Clients, route \in Routes : Send(p, c, route)
         \/ Lose(p) \/ Deliver(p) \/ DeliverGo(p) \/ Receive(p) \/ CheckTokenId(p) \/ Serve(p)
  PROVE  OneTokenInv'
<1>1. UNCHANGED <<now, ended, issued>> /\ TypeOK /\ job[p] \in Job /\ JobOK(job[p])
  BY DEF Send, Lose, Deliver, DeliverGo, Receive, CheckTokenId, Serve, server, history,
         IInv, TypeOK
<1>2. Aging
  BY <1>1, TimesUnchanged
<1>3. /\ job[p].token # NoToken => job[p].token.ts = issued'[job[p].token.tid]
      /\ job[p].new # NoToken => job[p].new.ts = issued'[job[p].new.tid]
      /\ \A c \in Clients : held[c] # NoToken => held[c].ts = issued'[held[c].tid]
  BY <1>1 DEF OneTokenInv, OnlyToken
<1>4. ASSUME NEW c \in Clients, NEW route \in Routes, Send(p, c, route) PROVE OneTokenInv'
  <2> DEFINE tok == held[c]
             j == [FreeSlot EXCEPT
                     !.pc = "sent", !.client = c, !.route = route, !.token = tok,
                     !.wasOver = tok # NoToken /\ tok.tid \in over,
                     !.wasIdle = tok # NoToken /\ now >= issued[tok.tid] + TokenExpiry]
  <2>1. SetJob(p, j) /\ held' = held
    BY <1>4 DEF Send
  <2>2. j.token = held[c] /\ j.new = NoToken /\ j.pc = "sent"
    BY DEF FreeSlot
  <2> HIDE DEF j
  <2> QED BY <1>2, <1>3, <2>1, <2>2, OneTokenStep
<1>5. CASE Lose(p)
  <2>1. SetJob(p, FreeSlot) /\ held' = held
    BY <1>5 DEF Lose
  <2>2. FreeSlot.token = NoToken /\ FreeSlot.new = NoToken /\ FreeSlot.pc = "free"
    BY DEF FreeSlot
  <2> QED BY <1>2, <1>3, <2>1, <2>2, OneTokenStep
<1>6. CASE Deliver(p) \/ DeliverGo(p)
  <2>1. SetJob(p, FreeSlot)
    BY <1>6 DEF Deliver, DeliverGo
  <2>2. FreeSlot.token = NoToken /\ FreeSlot.new = NoToken /\ FreeSlot.pc = "free"
    BY DEF FreeSlot
  <2>3. \A c \in Clients : held'[c] \in {held[c], job[p].new, NoToken}
    BY <1>1, <1>6 DEF Deliver, DeliverGo, TypeOK
  <2>4. \A c \in Clients : held'[c] # NoToken => held'[c].ts = issued'[held'[c].tid]
    BY <1>3, <2>3
  <2> QED BY <1>2, <2>1, <2>2, <2>4, OneTokenStep
<1>7. CASE Receive(p)
  <2>0. held' = held
    BY <1>7 DEF Receive
  <2>1. CASE Refuse(p, "unauthorized")
    BY <1>2, <2>0, <2>1, ReplyOneToken DEF Refuse, Statuses
  <2>2. CASE SetJob(p, [job[p] EXCEPT !.pc = "handle"])
    <3> DEFINE j == [job[p] EXCEPT !.pc = "handle"]
    <3>1. j.token = job[p].token /\ j.new = job[p].new /\ j.pc = "handle"
      BY <1>1 DEF Job
    <3>2. SetJob(p, j)
      BY <2>2
    <3> HIDE DEF j
    <3> QED BY <1>2, <1>3, <2>0, <3>1, <3>2, OneTokenStep
  <2>3. CASE /\ job[p].token # NoToken
             /\ SetJob(p, [job[p] EXCEPT
                  !.pc = IF checkTimestamp(job[p].token.ts) THEN "checkid" ELSE "expired",
                  !.uad = job[p].token])
    <3> DEFINE j == [job[p] EXCEPT
                       !.pc = IF checkTimestamp(job[p].token.ts) THEN "checkid" ELSE "expired",
                       !.uad = job[p].token]
    <3>1. /\ j.token = job[p].token /\ j.new = job[p].new /\ j.uad = job[p].token
          /\ j.pc = IF checkTimestamp(job[p].token.ts) THEN "checkid" ELSE "expired"
      BY <1>1 DEF Job
    <3>2. SetJob(p, j)
      BY <2>3
    <3> HIDE DEF j
    <3>3. job[p].token.ts \in Nat /\ now \in Nat /\ now' = now /\ TokenExpiry \in Nat
      BY <1>1, <2>3, JobFields, TokenTimes
    <3>4. j.pc = "expired" => now' >= j.uad.ts + TokenExpiry
      BY <3>1, <3>3 DEF checkTimestamp
    <3> QED BY <1>2, <1>3, <2>0, <3>1, <3>2, <3>4, OneTokenStep
  <2> QED BY <1>7, <2>1, <2>2, <2>3 DEF Receive
<1>8. CASE CheckTokenId(p)
  <2>0. held' = held
    BY <1>8 DEF CheckTokenId
  <2>1. CASE Refuse(p, "unauthorized") \/ Refuse(p, "forbidden")
    BY <1>2, <2>0, <2>1, ReplyOneToken DEF Refuse, Statuses
  <2>2. CASE SetJob(p, [job[p] EXCEPT !.pc = "handle"])
    <3> DEFINE j == [job[p] EXCEPT !.pc = "handle"]
    <3>1. j.token = job[p].token /\ j.new = job[p].new /\ j.pc = "handle"
      BY <1>1 DEF Job
    <3>2. SetJob(p, j)
      BY <2>2
    <3> HIDE DEF j
    <3> QED BY <1>2, <1>3, <2>0, <3>1, <3>2, OneTokenStep
  <2> QED BY <1>8, <2>1, <2>2 DEF CheckTokenId
<1>9. CASE Serve(p)
  BY <1>2, <1>9, ReplyOneToken DEF Serve, Answer, Statuses
<1> QED BY <1>4, <1>5, <1>6, <1>7, <1>8, <1>9

LEMMA EndOneToken ==
  ASSUME IInv, IInv', OneTokenInv, NEW p \in Slots, DropExpired(p) \/ Logout(p)
  PROVE  OneTokenInv'
<1>1. TypeOK /\ job[p] \in Job /\ JobOK(job[p]) /\ now \in Nat /\ now' = now
      /\ UNCHANGED <<issued, held>>
  BY Bounds DEF IInv, TypeOK, DropExpired, Logout
<1>2. CASE DropExpired(p)
  <2>1. PICK k \in Token : k = job[p].uad /\ k = job[p].token
    BY <1>1, <1>2, JobFields DEF DropExpired, JobOK
  <2>2. k.tid \in Tids /\ TokenOK(k) /\ k.ts = issued[k.tid] /\ now >= k.ts + TokenExpiry
    BY <1>1, <1>2, <2>1, TokenFields, SessionConstants DEF DropExpired, JobOK, OneTokenInv, OnlyToken
  <2>3. \A t \in Tids : ended'[t] = "expired" => ended[t] = "expired" \/ t = k.tid
    BY <1>1, <1>2, <2>1 DEF DropExpired, EndSession, TypeOK
  <2>4. Aging
    BY <1>1, <2>2, <2>3 DEF Aging, TokenOK
  <2> QED BY <1>1, <1>2, <2>4, ReplyOneToken DEF DropExpired, Refuse, Statuses
<1>3. CASE Logout(p)
  <2>1. \A t \in Tids : ended'[t] = "expired" => ended[t] = "expired"
    BY <1>1, <1>3 DEF Logout, EndSession, TypeOK
  <2>2. Aging
    BY <1>1, <2>1 DEF Aging
  <2> QED BY <1>1, <1>3, <2>2, ReplyOneToken DEF Logout, Answer, Statuses
<1> QED BY <1>2, <1>3

LEMMA LoginOneToken ==
  ASSUME IInv, IInv', OneTokenInv, NEW p \in Slots, Login(p)
  PROVE  OneTokenInv'
<1>1. TypeOK /\ job[p] \in Job /\ JobOK(job[p]) /\ now \in Nat /\ UNCHANGED <<now, held, ended>>
  BY Bounds DEF IInv, TypeOK, Login
<1>2. CASE Refuse(p, "denied") /\ UNCHANGED issued
  <2>1. Aging
    BY <1>1, <1>2, TimesUnchanged
  <2> QED BY <1>1, <1>2, <2>1, ReplyOneToken DEF Refuse, Statuses
<1>3. CASE ~(Refuse(p, "denied") /\ UNCHANGED issued)
  <2> DEFINE u == User[job[p].client]
             t == logins + 1
             k == tokenResponse(u, t)
  <2>1. /\ logins < MaxLogins /\ issued' = [issued EXCEPT ![t] = now] /\ Reply(p, "ok", k)
    BY <1>3 DEF Login, Answer
  <2>2. logins \in Nat /\ t \in Tids
    BY <1>1, <2>1, SessionConstants DEF TypeOK, Tids
  <2>3. u \in Users
    BY <1>1 DEF Login, Handling, JobOK, Users
  <2>4. k \in Token /\ k.ts = now /\ k.tid = t
    BY <1>1, <2>2, <2>3 DEF tokenResponse, Token, TypeOK
  <2>5. k.ts = issued'[k.tid]
    BY <1>1, <2>1, <2>2, <2>4 DEF TypeOK
  <2>6. Aging
    <3>1. \A i \in Tids : i <= logins => i # t
      BY <2>2, Bounds
    <3>2. \A i \in Tids : i <= logins => issued'[i] = issued[i]
      BY <1>1, <2>1, <3>1 DEF TypeOK
    <3> QED BY <1>1, <3>2 DEF Aging
  <2> HIDE DEF k
  <2> QED BY <1>1, <2>1, <2>4, <2>5, <2>6, ReplyOneToken DEF Statuses
<1> QED BY <1>2, <1>3

LEMMA ServerOneToken ==
  ASSUME IInv, IInv', OneTokenInv, Tick \/ Restart \/ UNCHANGED vars
  PROVE  OneTokenInv'
<1>1. TypeOK /\ now \in Nat
  BY Bounds DEF IInv, TypeOK
<1>2. UNCHANGED <<issued, held>> /\ now <= now'
  BY <1>1 DEF Tick, Restart, vars, history
<1>3. \A t \in Tids : ended'[t] = "expired" => ended[t] = "expired"
  BY DEF Tick, Restart, vars, history
<1>4. Aging
  BY <1>2, <1>3 DEF Aging
<1>5. \A q \in Slots : job'[q] = job[q] \/ job'[q] = FreeSlot
  BY DEF Tick, Restart, vars
<1>6. \A c \in Clients : held'[c] # NoToken => held'[c].ts = issued'[held'[c].tid]
  BY <1>2, <1>4, AgedHeld
<1>7. ASSUME NEW q \in Slots
      PROVE  /\ job'[q].token # NoToken => job'[q].token.ts = issued'[job'[q].token.tid]
             /\ job'[q].new # NoToken => job'[q].new.ts = issued'[job'[q].new.tid]
             /\ job'[q].pc = "expired" => now' >= job'[q].uad.ts + TokenExpiry
  BY <1>4, <1>5, AgedSlot
<1>8. \A t \in Tids : ended'[t] = "expired" => now' >= issued'[t] + TokenExpiry
  BY <1>4, AgedTimes
<1> QED BY <1>6, <1>7, <1>8 DEF OneTokenInv, OnlyToken

LEMMA OneTokenKept ==
  IInv /\ OneTokenInv /\ [Next]_vars /\ [NoRefresh]_vars => OneTokenInv'
<1> SUFFICES ASSUME IInv, OneTokenInv, [Next]_vars, [NoRefresh]_vars PROVE OneTokenInv'
  OBVIOUS
<1>1. IInv'
  BY StepInv
<1>2. CASE Tick \/ Restart \/ UNCHANGED vars
  BY <1>1, <1>2, ServerOneToken
<1>3. ASSUME NEW p \in Slots,
             (\E c \in Clients, route \in Routes : Send(p, c, route)) \/ Lose(p) \/ Progress(p)
      PROVE  OneTokenInv'
  <2>1. CASE UNCHANGED vars
    BY <1>1, <2>1, ServerOneToken
  <2>2. CASE NoRefresh
    <3>1. ~Refresh(p)
      BY <2>2 DEF NoRefresh
    <3> QED BY <1>1, <1>3, <3>1, CirculationOneToken, EndOneToken, LoginOneToken DEF Progress
  <2> QED BY <2>1, <2>2
<1> QED BY <1>2, <1>3 DEF Next

(* As long as nobody refreshes a token, an unexpired one is refused only   *)
(* after a logout or a restart, as docs/frontend-guide.md:94-95 says.  So  *)
(* what the run old_token shows takes a refresh: the id that the expired   *)
(* token takes out of the table (ServeHTTP, "token expired") is shared     *)
(* only between a token and those refreshed from it.                       *)
THEOREM UnexpiredAcceptedWithoutRefresh ==
  Spec /\ [][NoRefresh]_vars => []UnexpiredTokenAccepted
<1>1. Init => OneTokenInv
  BY DEF Init, OneTokenInv, FreeSlot
<1>2. IInv /\ OneTokenInv => UnexpiredTokenAccepted
  <2> SUFFICES ASSUME IInv, OneTokenInv, NEW p \in Slots, job[p].pc = "reply",
                      job[p].status = "unauthorized", job[p].token # NoToken,
                      ended[job[p].token.tid] \notin {"logout", "restart"}
               PROVE  now >= job[p].token.ts + TokenExpiry
    BY DEF UnexpiredTokenAccepted
  <2>1. job[p].token \in Token
    BY JobFields DEF IInv, TypeOK
  <2>2. job[p].token.tid \in Tids
    BY <2>1, TokenFields
  <2>3. ended[job[p].token.tid] = "expired"
    BY <2>2 DEF IInv, JobOK, TypeOK
  <2> QED BY <2>2, <2>3 DEF OneTokenInv, OnlyToken
<1> QED BY <1>1, <1>2, OneTokenKept, Invariance, PTL DEF Spec

(* A login is sent without a token, as the Go client means to.             *)
LoginsSentBare == \A p \in Slots, c \in Clients : Send(p, c, "login") => held[c] = NoToken

BareLogin(j) ==
  j.route = "login" =>
    /\ j.token = NoToken /\ j.pc \notin {"expired", "checkid"}
    /\ j.pc = "reply" => j.status \in {"ok", "denied"}

LEMMA BareLoginsKept ==
  TypeOK /\ (\A p \in Slots : BareLogin(job[p])) /\ [Next]_vars /\ [LoginsSentBare]_vars
    => \A p \in Slots : BareLogin(job'[p])
<1> SUFFICES ASSUME TypeOK, \A p \in Slots : BareLogin(job[p]), [Next]_vars,
                    [LoginsSentBare]_vars, NEW q \in Slots
             PROVE  BareLogin(job'[q])
  OBVIOUS
<1>1. BareLogin(FreeSlot)
  BY DEF BareLogin, FreeSlot
<1>2. CASE Tick \/ Restart \/ UNCHANGED vars
  <2>1. job'[q] = job[q] \/ job'[q] = FreeSlot
    BY <1>2 DEF Tick, Restart, vars
  <2> QED BY <1>1, <2>1
<1>3. ASSUME NEW p \in Slots, NEW j, SetJob(p, j), BareLogin(j) PROVE BareLogin(job'[q])
  BY <1>3 DEF SetJob, TypeOK
<1>4. ASSUME NEW p \in Slots, NEW c \in Clients, NEW route \in Routes, Send(p, c, route)
      PROVE  BareLogin(job'[q])
  <2>1. CASE UNCHANGED vars
    BY <1>2, <2>1
  <2>2. CASE LoginsSentBare
    <3> DEFINE tok == held[c]
               j == [FreeSlot EXCEPT
                       !.pc = "sent", !.client = c, !.route = route, !.token = tok,
                       !.wasOver = tok # NoToken /\ tok.tid \in over,
                       !.wasIdle = tok # NoToken /\ now >= issued[tok.tid] + TokenExpiry]
    <3>1. SetJob(p, j)
      BY <1>4 DEF Send
    <3>2. j.route = route /\ j.token = held[c] /\ j.pc = "sent"
      BY DEF FreeSlot
    <3>3. route = "login" => held[c] = NoToken
      BY <1>4, <2>2 DEF LoginsSentBare
    <3> HIDE DEF j
    <3> QED BY <1>3, <3>1, <3>2, <3>3 DEF BareLogin
  <2> QED BY <2>1, <2>2
<1>5. ASSUME NEW p \in Slots, NEW status, NEW tok, Reply(p, status, tok),
             job[p].route = "login" => status \in {"ok", "denied"}
      PROVE  BareLogin(job'[q])
  <2> DEFINE j == [FreeSlot EXCEPT
                     !.pc = "reply", !.client = job[p].client, !.route = job[p].route,
                     !.status = status, !.new = tok,
                     !.token = IF status = "unauthorized" THEN job[p].token ELSE NoToken]
  <2>1. SetJob(p, j)
    BY <1>5 DEF Reply
  <2>2. /\ j.route = job[p].route /\ j.pc = "reply" /\ j.status = status
        /\ j.token = IF status = "unauthorized" THEN job[p].token ELSE NoToken
    BY DEF FreeSlot
  <2> HIDE DEF j
  <2> QED BY <1>3, <1>5, <2>1, <2>2 DEF BareLogin
<1>6. ASSUME NEW p \in Slots, Lose(p) \/ Deliver(p) \/ DeliverGo(p) PROVE BareLogin(job'[q])
  <2>1. SetJob(p, FreeSlot)
    BY <1>6 DEF Lose, Deliver, DeliverGo
  <2> QED BY <1>1, <1>3, <2>1
<1>7. ASSUME NEW p \in Slots, job[p].pc \in {"sent", "checkid"},
             SetJob(p, [job[p] EXCEPT !.pc = "handle"])
      PROVE  BareLogin(job'[q])
  <2> DEFINE j == [job[p] EXCEPT !.pc = "handle"]
  <2>1. j.route = job[p].route /\ j.token = job[p].token /\ j.pc = "handle"
    BY DEF TypeOK, Job
  <2>2. SetJob(p, j) /\ BareLogin(job[p])
    BY <1>7
  <2> HIDE DEF j
  <2> QED BY <1>3, <2>1, <2>2 DEF BareLogin
<1>8. ASSUME NEW p \in Slots, Receive(p) PROVE BareLogin(job'[q])
  <2>1. job[p].pc = "sent" /\ BareLogin(job[p])
    BY <1>8 DEF Receive
  <2>2. CASE job[p].token = NoToken \/ job[p].token.key # SecretKey
    <3>1. CASE job[p].route \in AllowList
      BY <1>7, <1>8, <2>1, <2>2, <3>1 DEF Receive
    <3>2. CASE job[p].route \notin AllowList
      BY <1>5, <1>8, <2>2, <3>2 DEF Receive, Refuse, AllowList
    <3> QED BY <3>1, <3>2
  <2>3. CASE ~(job[p].token = NoToken \/ job[p].token.key # SecretKey)
    <3> DEFINE j == [job[p] EXCEPT
                       !.pc = IF checkTimestamp(job[p].token.ts) THEN "checkid" ELSE "expired",
                       !.uad = job[p].token]
    <3>1. SetJob(p, j)
      BY <1>8, <2>3 DEF Receive
    <3>2. j.route = job[p].route
      BY DEF TypeOK, Job
    <3>3. job[p].route # "login"
      BY <2>1, <2>3 DEF BareLogin
    <3> HIDE DEF j
    <3> QED BY <1>3, <3>1, <3>2, <3>3 DEF BareLogin
  <2> QED BY <2>2, <2>3
<1>9. ASSUME NEW p \in Slots, DropExpired(p) PROVE BareLogin(job'[q])
  <2>1. job[p].route # "login"
    BY <1>9 DEF DropExpired, BareLogin
  <2> QED BY <1>5, <1>9, <2>1 DEF DropExpired, Refuse
<1>10. ASSUME NEW p \in Slots, CheckTokenId(p) PROVE BareLogin(job'[q])
  <2>1. job[p].route # "login"
    BY <1>10 DEF CheckTokenId, BareLogin
  <2> QED BY <1>5, <1>7, <1>10, <2>1 DEF CheckTokenId, Refuse
<1>11. ASSUME NEW p \in Slots, Login(p) \/ Logout(p) \/ Refresh(p) \/ Serve(p)
       PROVE  BareLogin(job'[q])
  BY <1>5, <1>11 DEF Login, Logout, Refresh, Serve, Answer, Refuse
<1> QED BY <1>2, <1>4, <1>6, <1>8, <1>9, <1>10, <1>11 DEF Next, Progress

(* A login without a token is never refused at the gate (ServeHTTP): what  *)
(* the run login_with_token shows takes the token that the clients attach. *)
THEOREM BareLoginsAccepted ==
  Spec /\ [][LoginsSentBare]_vars => []LoginNeedsNoToken
<1> DEFINE Bare == \A p \in Slots : BareLogin(job[p])
<1>1. Init => Bare
  BY DEF Init, BareLogin, FreeSlot
<1>2. TypeOK /\ Bare /\ [Next]_vars /\ [LoginsSentBare]_vars => Bare'
  BY BareLoginsKept
<1>3. Bare => LoginNeedsNoToken
  BY DEF BareLogin, LoginNeedsNoToken
<1> HIDE DEF Bare
<1> QED BY <1>1, <1>2, <1>3, TypeCorrect, PTL DEF Spec
=============================================================================
