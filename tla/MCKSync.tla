------------------------------ MODULE MCKSync ------------------------------
(* Three threads of two priorities on two CPUs, a semaphore and a mailbox   *)
(* with room for two messages.                                              *)
EXTENDS KSync, TLC
CONSTANTS t1, t2, t3, c1, c2, s1, m1, m2

TwoLevels == t1 :> 0 @@ t2 :> 1 @@ t3 :> 1

MessageSymmetry == Permutations(Message)

SemaphoreBusy ==
  count[s1] > 0 \/ spin[s1] # NoCpu \/ \E t \in Thread : at[t].obj = s1
MailboxBusy ==
  size > 0 \/ spin[Box] # NoCpu \/ \E t \in Thread : at[t].obj = Box

\* The bound on the instance: one of the two objects is idle.
OneBusy == ~(SemaphoreBusy /\ MailboxBusy)
=============================================================================
