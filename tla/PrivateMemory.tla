--------------------------- MODULE PrivateMemory ---------------------------
(***************************************************************************)
(* What address spaces promise: a process sees its own stores and nobody    *)
(* else's, and a child starts with what its parent had.                     *)
(***************************************************************************)
EXTENDS Naturals

CONSTANTS Space, Address, Value, Unmapped

VARIABLE mem   \* mem[s][va]: what process s reads at va

Init == mem = [s \in Space |-> [va \in Address |-> Unmapped]]

\* A fresh page is zero.
Map(s, va) == mem[s][va] = Unmapped /\ mem' = [mem EXCEPT ![s][va] = 0]

Store(s, va, v) == mem[s][va] # Unmapped /\ mem' = [mem EXCEPT ![s][va] = v]

\* Nothing else changes, also when s has nothing mapped.
Fork(s, d) ==
  /\ \A va \in Address : mem[d][va] = Unmapped
  /\ mem' = [mem EXCEPT ![d] = mem[s]]

Exit(s) == mem' = [mem EXCEPT ![s] = [va \in Address |-> Unmapped]]

Next ==
  \E s \in Space :
    \/ \E va \in Address : Map(s, va) \/ \E v \in Value : Store(s, va, v)
    \/ \E d \in Space \ {s} : Fork(s, d)
    \/ Exit(s)

Spec == Init /\ [][Next]_mem
=============================================================================
