----------------------------- MODULE MCBuffers -----------------------------
(* Three blocks and two buffers: blocks have to make room for each other.   *)
EXTENDS Buffers, TLC
CONSTANTS t1, t2, b1, b2
=============================================================================
