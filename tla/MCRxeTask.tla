------------------------------ MODULE MCRxeTask ------------------------------
(* Instances of RxeTask for TLC. *)
EXTENDS RxeTask

CONSTANTS a, b, c

\* Every mode in which the task's function is run by one context at a time.
SafeModes == {[fast |-> 2, resets |-> 0], [fast |-> 0, resets |-> 2]}

\* The module parameter's default, and a reset.
FastReset == {[fast |-> 2, resets |-> 1]}
=============================================================================
