------------------------------ MODULE MCRxePool ------------------------------
(* Instances of RxePool for TLC. *)
EXTENDS RxePool

CONSTANTS a, b, c, x, y
=============================================================================
