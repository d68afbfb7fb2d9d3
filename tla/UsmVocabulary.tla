---------------------------- MODULE UsmVocabulary ----------------------------
(***************************************************************************)
(* The requests of the user-session manager (state/user.go) and what each  *)
(* of them means, shared by the abstract specification UsmAbstract and the *)
(* implementation Usm.                                                     *)
(***************************************************************************)
CONSTANTS Callers,  \* request goroutines that call the Usm* functions
          Uids,     \* user ids
          NoUid,    \* the empty uid "", for which every operation is a no-op
          Tids,     \* token ids
          Sgis,     \* share group ids
          NoChan    \* the nil channel

ASSUME NamesDistinct == NoUid \notin Uids /\ NoChan \notin Callers

(* UsmRequest without its reply channel: an operation, a uid and a value.  *)
(* SGI_ALLOW and SGI_REVOKE carry a list of groups, the others one value.  *)
Request ==
  [op : {"TOKEN_GET", "TOKEN_ADD", "TOKEN_DEL"}, uid : Uids \union {NoUid}, val : Tids]
    \union
  [op : {"SGI_CHECK"}, uid : Uids \union {NoUid}, val : Sgis]
    \union
  [op : {"SGI_ALLOW", "SGI_REVOKE"}, uid : Uids \union {NoUid}, val : SUBSET Sgis]
    \union
  [op : {"SGI_LIST"}, uid : Uids \union {NoUid}, val : {{}}]

(* A placeholder for "no call made yet".                                   *)
NoRequest == [op |-> "SGI_LIST", uid |-> NoUid, val |-> {}]

-----------------------------------------------------------------------------
(* The table of token ids after a request, as a function of the table      *)
(* before it.                                                              *)
TokenIdsAfter(m, t) ==
  IF m.op \notin {"TOKEN_ADD", "TOKEN_DEL"} \/ m.uid = NoUid THEN t
  ELSE [t EXCEPT ![m.uid] = IF m.op = "TOKEN_ADD" THEN @ \union {m.val} ELSE @ \ {m.val}]

(* The share-group allowlist after a request.                              *)
SgiAllowlistAfter(m, a) ==
  IF m.op \notin {"SGI_ALLOW", "SGI_REVOKE"} \/ m.uid = NoUid THEN a
  ELSE [a EXCEPT ![m.uid] = IF m.op = "SGI_ALLOW" THEN @ \union m.val ELSE @ \ m.val]

(* The answer to a request: the set of strings sent back.  The calls that  *)
(* only want to know yes or no get {"OK"} or the empty set.                *)
Found(b) == IF b THEN {"OK"} ELSE {}

Answer(m, t, a) ==
  IF m.op = "TOKEN_DEL" THEN {"OK"}
  ELSE IF m.uid = NoUid      THEN {}
  ELSE IF m.op = "TOKEN_GET" THEN Found(m.val \in t[m.uid])
  ELSE IF m.op = "SGI_CHECK" THEN Found(m.val \in a[m.uid])
  ELSE IF m.op = "SGI_LIST"  THEN a[m.uid]
  ELSE {}

(* The three stages of a call, as its caller sees them.                    *)
Idle        == [pc |-> "idle"]
Pending(m)  == [pc |-> "pending", req |-> m]
Done(m, r)  == [pc |-> "done", req |-> m, ret |-> r]
=============================================================================
