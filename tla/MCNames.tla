------------------------------ MODULE MCNames ------------------------------
(* Two processes, a directory in the root directory and a file in it.       *)
EXTENDS Names, TLC
CONSTANTS p1, p2, n0, n1, n2, n3

OnDir(sys) == [sys |-> sys, from |-> "/", path |-> <<"d">>, mode |-> "rw"]
OnFile(sys) == [sys |-> sys, from |-> "/", path |-> <<"d", "a">>, mode |-> "rw"]
ToRoot == [sys |-> "chdir", from |-> "/", path |-> <<>>, mode |-> "rw"]
ChmodHere == [sys |-> "chmod", from |-> ".", path |-> <<"a">>, mode |-> "rw"]

MCCalls == {OnDir(sys) : sys \in {"mkdir", "rmdir", "creat", "open"}}
           \cup {OnFile(sys) : sys \in {"creat", "unlink"}}
           \cup {ToRoot, ChmodHere}
Symmetry == Permutations(Proc) \cup Permutations(Node \ {Root})
=============================================================================
