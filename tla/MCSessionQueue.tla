--------------------------- MODULE MCSessionQueue ---------------------------
(* SessionQueue for TLC: the messages are interchangeable.                 *)
EXTENDS SessionQueue, TLC

Symmetry == Permutations(Messages)
=============================================================================
