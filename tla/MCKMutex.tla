------------------------------ MODULE MCKMutex -------------------------------
(* Instances of KMutex: three threads of up to three priorities, one or two *)
(* mutexes.  Mutexes are interchangeable.                                   *)
EXTENDS KMutex, TLC
CONSTANTS t1, t2, t3, c1, c2, q1, m1, m2

TwoLevels == t1 :> 0 @@ t2 :> 1 @@ t3 :> 1
ThreeLevels == t1 :> 0 @@ t2 :> 1 @@ t3 :> 2
LowHighHigh == t1 :> 1 @@ t2 :> 0 @@ t3 :> 0

MutexSymmetry == Permutations(Mutex)
=============================================================================
