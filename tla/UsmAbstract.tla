----------------------------- MODULE UsmAbstract -----------------------------
(***************************************************************************)
(* What the user-session manager (state/user.go) promises its callers: two *)
(* tables, the live token ids and the granted share groups of every user,  *)
(* and eight calls that each take effect at one instant between being made *)
(* and returning.  No channel and no goroutine appears here; module Usm    *)
(* has them and implements this specification.                             *)
(***************************************************************************)

EXTENDS UsmVocabulary

VARIABLES tokenIds, sgiAllowlist, call

absVars == <<tokenIds, sgiAllowlist, call>>

AbsInit ==
  /\ tokenIds = [u \in Uids |-> {}]
  /\ sgiAllowlist = [u \in Uids |-> {}]
  /\ call = [c \in Callers |-> Idle]

Invoke(c) ==
  /\ call[c].pc = "idle"
  /\ \E m \in Request : call' = [call EXCEPT ![c] = Pending(m)]
  /\ UNCHANGED <<tokenIds, sgiAllowlist>>

(* The instant a call takes effect: its answer is what the tables held, the *)
(* tables become what the operation leaves.                                 *)
Perform(c) ==
  /\ call[c].pc = "pending"
  /\ LET m == call[c].req IN
       /\ tokenIds' = TokenIdsAfter(m, tokenIds)
       /\ sgiAllowlist' = SgiAllowlistAfter(m, sgiAllowlist)
       /\ call' = [call EXCEPT ![c] = Done(m, Answer(m, tokenIds, sgiAllowlist))]

Return(c) ==
  /\ call[c].pc = "done"
  /\ call' = [call EXCEPT ![c] = Idle]
  /\ UNCHANGED <<tokenIds, sgiAllowlist>>

AbsNext == \E c \in Callers : Invoke(c) \/ Perform(c) \/ Return(c)

AbsSpec == AbsInit /\ [][AbsNext]_absVars
=============================================================================
