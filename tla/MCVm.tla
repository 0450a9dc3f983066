-------------------------------- MODULE MCVm --------------------------------
(* Two spaces of two pages, on nine free pages, which can run out.          *)
EXTENDS Vm, TLC
CONSTANTS s1, s2

MCRequests == {[addr |-> 0, n |-> 1, flags |-> "rw"], [addr |-> 0, n |-> 2, flags |-> "rw"],
               [addr |-> 2, n |-> 1, flags |-> "ro"]}
MCImage == 0 .. 6
Spaces == Permutations(Space)
=============================================================================
