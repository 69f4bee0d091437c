--------------------------- MODULE MCKqueueServer ---------------------------
(* Instances of KqueueServer for TLC. *)
EXTENDS KqueueServer, TLC

CONSTANTS c1, c2, c3

Symmetry == Permutations({c1, c2, c3})
=============================================================================
