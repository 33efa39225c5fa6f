------------------------------- MODULE MCRxeSRQ -------------------------------
EXTENDS RxeSRQ, TLC

CONSTANTS p, c, d

ResponderSymmetry == Permutations(Responders)
=============================================================================
