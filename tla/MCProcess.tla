------------------------------ MODULE MCProcess ------------------------------
(* init is process 0, its child is process 1. *)
EXTENDS Process

MCMasks == {{"KILL", "CHLD"}}
MCWaitCalls == {<<FALSE, FALSE>>, <<TRUE, FALSE>>}
==============================================================================
