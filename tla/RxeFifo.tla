------------------------------- MODULE RxeFifo -------------------------------
(***************************************************************************)
(* What a completion queue promises its consumer: a bounded FIFO.  An      *)
(* element is put at the end, or taken from the front, whole and in one    *)
(* step; a resize keeps the elements and never makes the bound smaller     *)
(* than their number.                                                      *)
(***************************************************************************)
EXTENDS Naturals, Sequences

CONSTANT Elem

VARIABLES fifo, bound

Init == fifo = <<>> /\ bound \in Nat \ {0}

Put == /\ Len(fifo) < bound
       /\ \E e \in Elem : fifo' = Append(fifo, e)
       /\ UNCHANGED bound

Take == /\ fifo # <<>>
        /\ fifo' = Tail(fifo)
        /\ UNCHANGED bound

Resize == /\ bound' \in Nat \ {0}
          /\ bound' >= Len(fifo)
          /\ UNCHANGED fifo

Next == Put \/ Take \/ Resize

Spec == Init /\ [][Next]_<<fifo, bound>>
=============================================================================
