-------------------------------- MODULE Lists --------------------------------
(***************************************************************************)
(* The doubly linked lists of include/kernel/core/list.h, as sequences.     *)
(* k_list_add_back() at the head of a list is Append.                       *)
(***************************************************************************)
EXTENDS Naturals, Sequences, Functions

\* k_list_add_back() at an element of the list: t becomes the k-th element.
InsertAt(s, k, t) ==
  [i \in 1 .. Len(s) + 1 |-> IF i < k THEN s[i] ELSE IF i = k THEN t ELSE s[i - 1]]

\* k_list_remove(): s without t; an element that is not linked stays so.
RemoveAt(s, k) == [i \in 1 .. Len(s) - 1 |-> IF i < k THEN s[i] ELSE s[i + 1]]

Remove(s, t) ==
  IF t \in Range(s) THEN RemoveAt(s, CHOOSE k \in DOMAIN s : s[k] = t) ELSE s
=============================================================================
