--------------------------------- MODULE Usm ---------------------------------
(***************************************************************************)
(* state/user.go: the user-session manager.  One goroutine owns the maps   *)
(* TokenIds and SgiAllowlist; request goroutines send it a UsmRequest on   *)
(* the unbuffered channel MsgsToUsm and, for the operations that answer,   *)
(* wait on a channel they made for the call.  UsmAddTokenId and            *)
(* UsmUserRevokeSgi make no channel and return as soon as the manager has  *)
(* taken the message, before it has been applied.                          *)
(*                                                                         *)
(* A missing key of a Go map is the empty set here: every operation of the *)
(* code treats the two alike.  The comma-separated lists of SGI_ALLOW,     *)
(* SGI_REVOKE and SGI_LIST are sets (an SGI is base64 and has no comma).   *)
(***************************************************************************)
EXTENDS UsmVocabulary

VARIABLES TokenIds,      \* uid -> its live token ids
          SgiAllowlist,  \* uid -> the share groups granted to it
          srv,           \* where the manager is: receiving, in the switch, or sending a reply
          msg,           \* the last message it took
          ch,            \* that message's ReturnVal: the caller that made the channel, or nil
          rv,            \* the reply it is sending
          pc,            \* where each caller is
          req            \* the request of the caller's current call

vars == <<TokenIds, SgiAllowlist, srv, msg, ch, rv, pc, req>>

(* The operations whose Usm* function makes a reply channel.               *)
AwaitsReply == {"TOKEN_GET", "TOKEN_DEL", "SGI_CHECK", "SGI_ALLOW", "SGI_LIST"}

(* UsmInit, then UsmRun has started the goroutine.                         *)
UsmInit ==
  /\ TokenIds = [u \in Uids |-> {}]
  /\ SgiAllowlist = [u \in Uids |-> {}]
  /\ srv = "recv"
  /\ msg = NoRequest /\ ch = NoChan
  /\ rv = {}
  /\ pc = [c \in Callers |-> "idle"]
  /\ req = [c \in Callers |-> NoRequest]

-----------------------------------------------------------------------------
(* The callers.                                                            *)

(* A request goroutine enters one of the Usm* functions and stands at its  *)
(* send.                                                                   *)
Call(c) ==
  /\ pc[c] = "idle"
  /\ \E m \in Request : req' = [req EXCEPT ![c] = m]
  /\ pc' = [pc EXCEPT ![c] = "send"]
  /\ UNCHANGED <<TokenIds, SgiAllowlist, srv, msg, ch, rv>>

(* The rendezvous on MsgsToUsm: the caller's send and the manager's        *)
(* receive are one step.  The caller goes on to wait for its reply, or,    *)
(* having made no channel, to its return.                                  *)
Send(c) ==
  /\ pc[c] = "send" /\ srv = "recv"
  /\ msg' = req[c]
  /\ IF req[c].op \in AwaitsReply
     THEN /\ ch' = c
          /\ pc' = [pc EXCEPT ![c] = "wait"]
     ELSE /\ ch' = NoChan
          /\ pc' = [pc EXCEPT ![c] = "sent"]
  /\ srv' = "switch"
  /\ UNCHANGED <<TokenIds, SgiAllowlist, rv, req>>

Returns(c) == pc' = [pc EXCEPT ![c] = "idle"] /\ req' = [req EXCEPT ![c] = NoRequest]

(* Back to "for msg := range msgch"; what the last message left behind is  *)
(* dead.                                                                   *)
AwaitNext == srv' = "recv" /\ msg' = NoRequest /\ ch' = NoChan /\ rv' = {}

(* UsmAddTokenId and UsmUserRevokeSgi return.                              *)
ReturnUnanswered(c) ==
  /\ pc[c] = "sent"
  /\ Returns(c)
  /\ UNCHANGED <<TokenIds, SgiAllowlist, srv, msg, ch, rv>>

(* The rendezvous on the caller's reply channel, on which its function     *)
(* returns.                                                                *)
Deliver(c) ==
  /\ srv = "reply" /\ ch = c /\ pc[c] = "wait"
  /\ Returns(c)
  /\ AwaitNext
  /\ UNCHANGED <<TokenIds, SgiAllowlist>>

-----------------------------------------------------------------------------
(* The manager's switch, one action per case.                              *)

InCase(op) == srv = "switch" /\ msg.op = op

(* msg.ReturnVal <- s: the manager now stands at the send, whatever        *)
(* channel the message carries.                                            *)
Reply(s) == srv' = "reply" /\ rv' = s /\ UNCHANGED <<msg, ch>>

TokenGet ==
  /\ InCase("TOKEN_GET")
  /\ Reply(Found(msg.uid # NoUid /\ msg.val \in TokenIds[msg.uid]))
  /\ UNCHANGED <<TokenIds, SgiAllowlist, pc, req>>

TokenAdd ==
  /\ InCase("TOKEN_ADD")
  /\ TokenIds' = IF msg.uid = NoUid THEN TokenIds
                 ELSE [TokenIds EXCEPT ![msg.uid] = @ \union {msg.val}]
  /\ AwaitNext
  /\ UNCHANGED <<SgiAllowlist, pc, req>>

(* TOKEN_DEL with its reply moved into the branch for a known uid.         *)
TokenDelAnsweringKnown ==
  /\ InCase("TOKEN_DEL")
  /\ TokenIds' = IF msg.uid = NoUid THEN TokenIds
                 ELSE [TokenIds EXCEPT ![msg.uid] = @ \ {msg.val}]
  /\ IF msg.uid = NoUid THEN AwaitNext ELSE Reply({"OK"})
  /\ UNCHANGED <<SgiAllowlist, pc, req>>

TokenDel ==
  /\ InCase("TOKEN_DEL")
  /\ TokenIds' = IF msg.uid = NoUid THEN TokenIds
                 ELSE [TokenIds EXCEPT ![msg.uid] = @ \ {msg.val}]
  /\ Reply({"OK"})
  /\ UNCHANGED <<SgiAllowlist, pc, req>>

SgiCheck ==
  /\ InCase("SGI_CHECK")
  /\ Reply(Found(msg.uid # NoUid /\ msg.val \in SgiAllowlist[msg.uid]))
  /\ UNCHANGED <<TokenIds, SgiAllowlist, pc, req>>

(* SGI_ALLOW without splitting the list of groups.                         *)
SgiAllowUnsplit ==
  /\ InCase("SGI_ALLOW")
  /\ SgiAllowlist' = IF msg.uid = NoUid THEN SgiAllowlist
                     ELSE [SgiAllowlist EXCEPT ![msg.uid] = @ \union {msg.val}]
  /\ Reply({})
  /\ UNCHANGED <<TokenIds, pc, req>>

SgiAllow ==
  /\ InCase("SGI_ALLOW")
  /\ SgiAllowlist' = IF msg.uid = NoUid THEN SgiAllowlist
                     ELSE [SgiAllowlist EXCEPT ![msg.uid] = @ \union msg.val]
  /\ Reply({})
  /\ UNCHANGED <<TokenIds, pc, req>>

(* What SGI_REVOKE would be if it answered like its counterpart SGI_ALLOW: *)
(* UsmUserRevokeSgi sends a nil channel, on which a send never completes.  *)
SgiRevokeReplying ==
  /\ InCase("SGI_REVOKE")
  /\ SgiAllowlist' = IF msg.uid = NoUid THEN SgiAllowlist
                     ELSE [SgiAllowlist EXCEPT ![msg.uid] = @ \ msg.val]
  /\ Reply({})
  /\ UNCHANGED <<TokenIds, pc, req>>

(* SGI_REVOKE deleting the user's entry instead of the groups named.       *)
SgiRevokeAll ==
  /\ InCase("SGI_REVOKE")
  /\ SgiAllowlist' = IF msg.uid = NoUid THEN SgiAllowlist
                     ELSE [SgiAllowlist EXCEPT ![msg.uid] = {}]
  /\ AwaitNext
  /\ UNCHANGED <<TokenIds, pc, req>>

SgiRevoke ==
  /\ InCase("SGI_REVOKE")
  /\ SgiAllowlist' = IF msg.uid = NoUid THEN SgiAllowlist
                     ELSE [SgiAllowlist EXCEPT ![msg.uid] = @ \ msg.val]
  /\ AwaitNext
  /\ UNCHANGED <<TokenIds, pc, req>>

SgiList ==
  /\ InCase("SGI_LIST")
  /\ Reply(IF msg.uid # NoUid THEN SgiAllowlist[msg.uid] ELSE {})
  /\ UNCHANGED <<TokenIds, SgiAllowlist, pc, req>>

Switch == TokenGet \/ TokenAdd \/ TokenDel \/ SgiCheck \/ SgiAllow \/ SgiRevoke \/ SgiList

Next == Switch \/ \E c \in Callers : Call(c) \/ Send(c) \/ ReturnUnanswered(c) \/ Deliver(c)

(* The Go scheduler runs every goroutine that can run, and the senders     *)
(* blocked on a channel are queued first come first served, so a sender    *)
(* the manager keeps being ready for is received from eventually.  Whether *)
(* a goroutine makes a further call is its own affair.                     *)
Fairness ==
  /\ WF_vars(Switch)
  /\ \A c \in Callers : /\ SF_vars(Send(c))
                        /\ WF_vars(Deliver(c))
                        /\ WF_vars(ReturnUnanswered(c))

Spec == UsmInit /\ [][Next]_vars /\ Fairness
-----------------------------------------------------------------------------
(* Every variable keeps its type.                                          *)
TypeOK ==
  /\ TokenIds \in [Uids -> SUBSET Tids]
  /\ SgiAllowlist \in [Uids -> SUBSET Sgis]
  /\ srv \in {"recv", "switch", "reply"}
  /\ msg \in Request
  /\ ch \in Callers \union {NoChan}
  /\ rv \in SUBSET (Sgis \union {"OK"})
  /\ pc \in [Callers -> {"idle", "send", "wait", "sent"}]
  /\ req \in [Callers -> Request]

(* The manager never stands at a send that nobody can complete: the        *)
(* message it is answering carries a channel, and the caller that made it  *)
(* is waiting there for the answer to that very request.  Conversely a     *)
(* caller waits only while the manager holds its request.  (UsmRun sends   *)
(* on msg.ReturnVal without looking whether it is nil, so this rests on    *)
(* the cases of the switch agreeing with the functions below it.)          *)
RepliesAreAwaited ==
  /\ srv = "reply" => ch \in Callers /\ pc[ch] = "wait"
  /\ \A c \in Callers : pc[c] = "wait" => srv # "recv" /\ ch = c /\ req[c] = msg

(* The refinement mapping.  A message the manager has taken and not yet    *)
(* applied counts as applied; a caller whose message has been taken has    *)
(* its answer.                                                             *)
AppliedTokenIds ==
  IF srv = "switch" THEN TokenIdsAfter(msg, TokenIds) ELSE TokenIds

AppliedSgiAllowlist ==
  IF srv = "switch" THEN SgiAllowlistAfter(msg, SgiAllowlist) ELSE SgiAllowlist

CallView ==
  [c \in Callers |->
     IF pc[c] = "idle" THEN Idle
     ELSE IF pc[c] = "send" THEN Pending(req[c])
     ELSE Done(req[c], IF pc[c] = "sent" THEN {}
                       ELSE IF srv = "switch" THEN Answer(msg, TokenIds, SgiAllowlist)
                       ELSE rv)]

Abs == INSTANCE UsmAbstract WITH
         tokenIds     <- AppliedTokenIds,
         sgiAllowlist <- AppliedSgiAllowlist,
         call         <- CallView

(* The calls that return before the manager has applied them still look    *)
(* atomic: with a message the manager has taken counted as applied, every  *)
(* behaviour is one of UsmAbstract, where each call takes effect at one    *)
(* instant between its start and its return.                               *)
AtomicCalls == Abs!AbsSpec

(* Every call made to the manager returns: no answer is forgotten, no      *)
(* reply blocks the goroutine for good, and no sender is passed over for   *)
(* ever.                                                                   *)
EveryCallReturns == \A c \in Callers : pc[c] # "idle" ~> pc[c] = "idle"
=============================================================================
