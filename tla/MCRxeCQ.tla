------------------------------ MODULE MCRxeCQ ------------------------------
(* Instances of RxeCQ for TLC. *)
EXTENDS RxeCQ

CONSTANTS p1, p2, c1, c2
=============================================================================
