---------------------------- MODULE MCIrqThread ----------------------------
(* The interrupt thread t1 at the highest priority and another thread.   *)
EXTENDS IrqThread, TLC
CONSTANTS t1, t2, c1, c2, s1

IsrFirst == [t \in Thread |-> IF t = Isr THEN 0 ELSE 1]
=============================================================================
