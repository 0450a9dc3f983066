------------------------------ MODULE MCFiles ------------------------------
(* Two processes, the two files of a pipe that holds two bytes.             *)
EXTENDS Files, TLC
CONSTANTS p1, p2, f1, f2, x1

OneOrTwo == {<<0>>, <<1, 0>>}
FileSymmetry == Permutations(File)
=============================================================================
