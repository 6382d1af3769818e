---------------------------- MODULE MCCodeDelivery ----------------------------
(* Instances of CodeDelivery for TLC. *)
EXTENDS CodeDelivery, TLC

CONSTANTS c1, c2, a1, g1, g2

\* Guessers do not differ.
Symmetry == Permutations({g1, g2})
=============================================================================
