------------------------------ MODULE Channel ------------------------------
(***************************************************************************)
(* What a pipe promises: the bytes that are read are the bytes that were    *)
(* written, in order, each once, at most Capacity of them on the way.  What *)
(* is written after the last reader is gone goes nowhere.  The channel can  *)
(* be lost, and promises nothing until it is opened again.                  *)
(***************************************************************************)
EXTENDS Naturals, Sequences

CONSTANTS Item, Capacity

VARIABLES items,   \* written and not read yet
          open     \* somebody can read, and nothing was lost

Init == items = <<>> /\ open = FALSE

Open == ~open /\ open' /\ items' = <<>>

Write ==
  /\ open
  /\ \E s \in UNION {[1 .. n -> Item] : n \in 1 .. Capacity - Len(items)} :
       items' = items \o s
  /\ UNCHANGED open

Read ==
  /\ open
  /\ \E n \in 1 .. Len(items) : items' = SubSeq(items, n + 1, Len(items))
  /\ UNCHANGED open

Close == open /\ ~open' /\ items' = <<>>

Spec == Init /\ [][Open \/ Write \/ Read \/ Close]_<<items, open>>
=============================================================================
