------------------------------ MODULE UsmProofs ------------------------------
(***************************************************************************)
(* Proofs about the session manager, for any set of callers, users, token  *)
(* ids and share groups: it is type correct, it never blocks on a reply    *)
(* nobody awaits, and its calls are atomic (it implements UsmAbstract).    *)
(***************************************************************************)
EXTENDS Usm, TLAPS

(* What is known of a request from its operation alone.                    *)
LEMMA RequestShape ==
  ASSUME NEW m \in Request
  PROVE  /\ m.op \in {"TOKEN_GET", "TOKEN_ADD", "TOKEN_DEL", "SGI_CHECK",
                      "SGI_ALLOW", "SGI_REVOKE", "SGI_LIST"}
         /\ m.uid \in Uids \union {NoUid}
         /\ m.op \in {"TOKEN_GET", "TOKEN_ADD", "TOKEN_DEL"} => m.val \in Tids
         /\ m.op \in {"SGI_ALLOW", "SGI_REVOKE"} => m.val \subseteq Sgis
BY DEF Request

LEMMA NoRequestIsRequest == NoRequest \in Request
BY DEF NoRequest, Request

(* RepliesAreAwaited is not inductive: that the send the manager is about  *)
(* to reach has a receiver depends on the message it took while still in   *)
(* the switch.  ChannelMatchesOperation carries that over the switch: a    *)
(* message has a channel exactly if its case replies, and then its caller  *)
(* is already waiting.                                                     *)
ChannelMatchesOperation ==
  srv = "switch" => /\ msg.op \in AwaitsReply <=> ch \in Callers
                    /\ ch \in Callers => pc[ch] = "wait"

IInv == TypeOK /\ RepliesAreAwaited /\ ChannelMatchesOperation

LEMMA InitEstablishesIInv == UsmInit => IInv
BY NoRequestIsRequest DEF UsmInit, IInv, TypeOK, RepliesAreAwaited, ChannelMatchesOperation

(* Every step of a caller or of the manager keeps the types.               *)
LEMMA TypeStep == IInv /\ [Next]_vars => TypeOK'
<1> SUFFICES ASSUME IInv, [Next]_vars PROVE TypeOK'
  OBVIOUS
<1> USE NoRequestIsRequest DEF IInv, TypeOK
<1>1. CASE Switch
  <2> /\ msg.uid \in Uids \union {NoUid}
      /\ msg.op \in {"TOKEN_GET", "TOKEN_ADD", "TOKEN_DEL"} => msg.val \in Tids
      /\ msg.op \in {"SGI_ALLOW", "SGI_REVOKE"} => msg.val \subseteq Sgis
    BY RequestShape
  <2>1. CASE TokenGet BY <2>1 DEF TokenGet, InCase, Reply, Found
  <2>2. CASE TokenAdd BY <2>2 DEF TokenAdd, InCase, AwaitNext
  <2>3. CASE TokenDel BY <2>3 DEF TokenDel, InCase, Reply
  <2>4. CASE SgiCheck BY <2>4 DEF SgiCheck, InCase, Reply, Found
  <2>5. CASE SgiAllow BY <2>5 DEF SgiAllow, InCase, Reply
  <2>6. CASE SgiRevoke BY <2>6 DEF SgiRevoke, InCase, AwaitNext
  <2>7. CASE SgiList BY <2>7 DEF SgiList, InCase, Reply
  <2> QED BY <1>1, <2>1, <2>2, <2>3, <2>4, <2>5, <2>6, <2>7 DEF Switch
<1>2. ASSUME NEW c \in Callers, Call(c) PROVE TypeOK'
  BY <1>2 DEF Call
<1>3. ASSUME NEW c \in Callers, Send(c) PROVE TypeOK'
  BY <1>3 DEF Send
<1>4. ASSUME NEW c \in Callers, ReturnUnanswered(c) PROVE TypeOK'
  BY <1>4 DEF ReturnUnanswered, Returns
<1>5. ASSUME NEW c \in Callers, Deliver(c) PROVE TypeOK'
  BY <1>5 DEF Deliver, Returns, AwaitNext
<1>6. CASE UNCHANGED vars
  BY <1>6 DEF vars
<1> QED
  BY <1>1, <1>2, <1>3, <1>4, <1>5, <1>6 DEF Next

LEMMA ReplyStep == IInv /\ [Next]_vars => (RepliesAreAwaited /\ ChannelMatchesOperation)'
<1> SUFFICES ASSUME IInv, [Next]_vars PROVE (RepliesAreAwaited /\ ChannelMatchesOperation)'
  OBVIOUS
<1> USE NamesDistinct DEF IInv, TypeOK, RepliesAreAwaited, ChannelMatchesOperation
<1>1. CASE Switch
  <2>1. CASE TokenGet BY <2>1 DEF TokenGet, InCase, Reply, AwaitsReply
  <2>2. CASE TokenAdd BY <2>2 DEF TokenAdd, InCase, AwaitNext, AwaitsReply
  <2>3. CASE TokenDel BY <2>3 DEF TokenDel, InCase, Reply, AwaitsReply
  <2>4. CASE SgiCheck BY <2>4 DEF SgiCheck, InCase, Reply, AwaitsReply
  <2>5. CASE SgiAllow BY <2>5 DEF SgiAllow, InCase, Reply, AwaitsReply
  <2>6. CASE SgiRevoke BY <2>6 DEF SgiRevoke, InCase, AwaitNext, AwaitsReply
  <2>7. CASE SgiList BY <2>7 DEF SgiList, InCase, Reply, AwaitsReply
  <2> QED BY <1>1, <2>1, <2>2, <2>3, <2>4, <2>5, <2>6, <2>7 DEF Switch
<1>2. ASSUME NEW c \in Callers, Call(c) PROVE (RepliesAreAwaited /\ ChannelMatchesOperation)'
  BY <1>2 DEF Call
<1>3. ASSUME NEW c \in Callers, Send(c) PROVE (RepliesAreAwaited /\ ChannelMatchesOperation)'
  BY <1>3 DEF Send
<1>4. ASSUME NEW c \in Callers, ReturnUnanswered(c)
      PROVE (RepliesAreAwaited /\ ChannelMatchesOperation)'
  BY <1>4 DEF ReturnUnanswered, Returns
<1>5. ASSUME NEW c \in Callers, Deliver(c) PROVE (RepliesAreAwaited /\ ChannelMatchesOperation)'
  BY <1>5 DEF Deliver, Returns, AwaitNext
<1>6. CASE UNCHANGED vars
  BY <1>6 DEF vars
<1> QED
  BY <1>1, <1>2, <1>3, <1>4, <1>5, <1>6 DEF Next

LEMMA Inductive == Spec => []IInv
<1>1. IInv /\ [Next]_vars => IInv'
  BY TypeStep, ReplyStep DEF IInv
<1> QED
  BY InitEstablishesIInv, <1>1, PTL DEF Spec

(* The session manager's state keeps its types, for every set of callers,  *)
(* users, token ids and groups.                                            *)
THEOREM TypeCorrect == Spec => []TypeOK
<1>1. IInv => TypeOK
  BY DEF IInv
<1> QED
  BY Inductive, <1>1, PTL

(* However many goroutines call it, the manager is never left sending a    *)
(* reply that nobody receives: UsmRun's unconditional sends on             *)
(* msg.ReturnVal always meet a caller waiting for the answer to that very  *)
(* request.                                                                *)
THEOREM NoReplyIsLost == Spec => []RepliesAreAwaited
<1>1. IInv => RepliesAreAwaited
  BY DEF IInv
<1> QED
  BY Inductive, <1>1, PTL
-----------------------------------------------------------------------------
(* The manager implements the atomic object.  Sending a message is the     *)
(* instant the call takes effect; the manager's own step in the switch,    *)
(* which comes after a call without an answer may already have returned,   *)
(* changes nothing an observer of UsmAbstract can see.                     *)

(* The switch computes what the request means: each case leaves the tables *)
(* and the reply that TokenIdsAfter, SgiAllowlistAfter and Answer define.  *)
LEMMA SwitchMeaning ==
  ASSUME IInv, Switch
  PROVE  /\ TokenIds' = TokenIdsAfter(msg, TokenIds)
         /\ SgiAllowlist' = SgiAllowlistAfter(msg, SgiAllowlist)
         /\ \/ /\ srv' = "reply" /\ rv' = Answer(msg, TokenIds, SgiAllowlist)
            \/ /\ srv' = "recv"  /\ msg.op \notin AwaitsReply
         /\ srv = "switch"
         /\ UNCHANGED <<pc, req>>
<1> msg.uid \in Uids \union {NoUid}
  BY RequestShape DEF IInv, TypeOK
<1> USE NamesDistinct DEF InCase, Reply, AwaitNext, AwaitsReply,
                          TokenIdsAfter, SgiAllowlistAfter, Answer, Found
<1>1. CASE TokenGet BY <1>1 DEF TokenGet
<1>2. CASE TokenAdd BY <1>2 DEF TokenAdd
<1>3. CASE TokenDel BY <1>3 DEF TokenDel
<1>4. CASE SgiCheck BY <1>4 DEF SgiCheck
<1>5. CASE SgiAllow BY <1>5 DEF SgiAllow
<1>6. CASE SgiRevoke BY <1>6 DEF SgiRevoke
<1>7. CASE SgiList BY <1>7 DEF SgiList
<1> QED BY <1>1, <1>2, <1>3, <1>4, <1>5, <1>6, <1>7 DEF Switch

LEMMA InitRefines == UsmInit => Abs!AbsInit
BY DEF UsmInit, Abs!AbsInit, AppliedTokenIds, AppliedSgiAllowlist, CallView,
       Idle, Abs!Idle

LEMMA StepRefines == IInv /\ [Next]_vars => [Abs!AbsNext]_(Abs!absVars)
<1> SUFFICES ASSUME IInv, [Next]_vars
             PROVE  Abs!AbsNext \/ UNCHANGED Abs!absVars
  BY DEF Abs!absVars
<1> USE DEF IInv, TypeOK
<1>1. CASE Switch
  <2>1. UNCHANGED <<AppliedTokenIds, AppliedSgiAllowlist>>
    BY <1>1, SwitchMeaning DEF AppliedTokenIds, AppliedSgiAllowlist
  <2>2. UNCHANGED CallView
    BY <1>1, SwitchMeaning
       DEF CallView, RepliesAreAwaited, ChannelMatchesOperation, Done
  <2> QED BY <2>1, <2>2 DEF Abs!absVars
<1>2. ASSUME NEW c \in Callers, Call(c) PROVE Abs!Invoke(c)
  <2>1. UNCHANGED <<AppliedTokenIds, AppliedSgiAllowlist>>
    BY <1>2 DEF Call, AppliedTokenIds, AppliedSgiAllowlist
  <2>2. PICK m \in Request : req' = [req EXCEPT ![c] = m]
    BY <1>2 DEF Call
  <2>3. CallView[c].pc = "idle" /\ CallView' = [CallView EXCEPT ![c] = Pending(m)]
    BY <1>2, <2>2 DEF Call, CallView, Idle
  <2> QED BY <2>1, <2>2, <2>3 DEF Abs!Invoke, Abs!Request, Request, Abs!Pending, Pending
<1>3. ASSUME NEW c \in Callers, Send(c) PROVE Abs!Perform(c)
  <2>1. /\ AppliedTokenIds = TokenIds /\ AppliedTokenIds' = TokenIdsAfter(req[c], TokenIds)
        /\ AppliedSgiAllowlist = SgiAllowlist
        /\ AppliedSgiAllowlist' = SgiAllowlistAfter(req[c], SgiAllowlist)
    BY <1>3 DEF Send, AppliedTokenIds, AppliedSgiAllowlist
  <2>2. CallView[c] = Pending(req[c])
    BY <1>3 DEF Send, CallView
  <2>3. req[c].op \notin AwaitsReply => Answer(req[c], TokenIds, SgiAllowlist) = {}
    BY RequestShape DEF AwaitsReply, Answer
  <2>4. CallView' = [CallView EXCEPT ![c] = Done(req[c], Answer(req[c], TokenIds, SgiAllowlist))]
    BY <1>3, <2>3 DEF Send, CallView, RepliesAreAwaited
  <2> QED
    BY <2>1, <2>2, <2>4
       DEF Abs!Perform, Pending, Done, Abs!Done, TokenIdsAfter, Abs!TokenIdsAfter,
           SgiAllowlistAfter, Abs!SgiAllowlistAfter, Answer, Abs!Answer, Found, Abs!Found
<1>4. ASSUME NEW c \in Callers, ReturnUnanswered(c) PROVE Abs!Return(c)
  <2>1. UNCHANGED <<AppliedTokenIds, AppliedSgiAllowlist>>
    BY <1>4 DEF ReturnUnanswered, AppliedTokenIds, AppliedSgiAllowlist
  <2>2. CallView[c].pc = "done" /\ CallView' = [CallView EXCEPT ![c] = Idle]
    BY <1>4 DEF ReturnUnanswered, Returns, CallView, Done
  <2> QED BY <2>1, <2>2 DEF Abs!Return, Abs!Idle, Idle
<1>5. ASSUME NEW c \in Callers, Deliver(c) PROVE Abs!Return(c)
  <2>1. UNCHANGED <<AppliedTokenIds, AppliedSgiAllowlist>>
    BY <1>5 DEF Deliver, AwaitNext, AppliedTokenIds, AppliedSgiAllowlist
  <2>2. CallView[c].pc = "done" /\ CallView' = [CallView EXCEPT ![c] = Idle]
    BY <1>5 DEF Deliver, Returns, AwaitNext, CallView, Done, RepliesAreAwaited
  <2> QED BY <2>1, <2>2 DEF Abs!Return, Abs!Idle, Idle
<1>6. CASE UNCHANGED vars
  BY <1>6 DEF vars, Abs!absVars, AppliedTokenIds, AppliedSgiAllowlist, CallView
<1> QED
  BY <1>1, <1>2, <1>3, <1>4, <1>5, <1>6 DEF Next, Abs!AbsNext

(* Every behaviour of the goroutine and its channels is a behaviour of the *)
(* atomic tables: UsmAddTokenId and UsmUserRevokeSgi, which return before  *)
(* they are applied, are nevertheless seen by every later call.            *)
THEOREM CallsAreAtomic == Spec => AtomicCalls
  BY Inductive, InitRefines, StepRefines, PTL DEF Spec, AtomicCalls, Abs!AbsSpec
=============================================================================
