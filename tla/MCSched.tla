------------------------------ MODULE MCSched --------------------------------
(* Instances of Sched: three threads on one or two CPUs, one wait queue.    *)
EXTENDS Sched, TLC
CONSTANTS t1, t2, t3, c1, c2, q1

HighHighLow == t1 :> 0 @@ t2 :> 0 @@ t3 :> 1
=============================================================================
