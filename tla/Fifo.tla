---------------------------------- MODULE Fifo ----------------------------------
(***************************************************************************)
(* What a bounded queue promises its users: every item is taken once, in   *)
(* the order of the puts, and at most Capacity items are inside.           *)
(***************************************************************************)
EXTENDS Naturals, Sequences

CONSTANTS Capacity, Items

VARIABLES inside, \* the items put and not taken
          taken   \* the item taken last

Init == inside = <<>>

\* An item is put behind the others.
Put ==
  /\ Len(inside) < Capacity
  /\ Len(inside') = Len(inside) + 1
  /\ inside'[Len(inside')] \in Items
  /\ inside' = Append(inside, inside'[Len(inside')])
  /\ UNCHANGED taken

Take == inside # <<>> /\ taken' = Head(inside) /\ inside' = Tail(inside)

Next == Put \/ Take

Spec == Init /\ [][Next]_<<inside, taken>>
=============================================================================
