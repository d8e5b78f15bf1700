--------------------------- MODULE MCClientQueue ---------------------------
(* Instances of the client queue for model checking.                       *)
EXTENDS ClientQueue, TLC

Symmetry == Permutations(Clients)

=============================================================================
