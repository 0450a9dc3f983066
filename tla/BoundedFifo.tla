---------------------------- MODULE BoundedFifo ----------------------------
(***************************************************************************)
(* What a mailbox or a pipe promises: a bounded queue, out of which items   *)
(* come in the order in which they went in, each once.                      *)
(***************************************************************************)
EXTENDS Naturals, Sequences

CONSTANTS Item, Capacity

VARIABLE items

Init == items = <<>>

Put ==
  /\ Len(items) < Capacity
  /\ \E x \in Item : items' = Append(items, x)

Get ==
  /\ items # <<>>
  /\ items' = Tail(items)

Spec == Init /\ [][Put \/ Get]_items
=============================================================================
