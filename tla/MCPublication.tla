---------------------------- MODULE MCPublication ----------------------------
(* The checkout has the same content everywhere at first.                  *)
EXTENDS Publication

CONSTANT v1

MCCheckout == [f \in File |-> v1]
=============================================================================
