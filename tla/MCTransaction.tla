--------------------------- MODULE MCTransaction ---------------------------
(* Instances of Transaction for TLC. *)
EXTENDS Transaction, TLC

CONSTANTS c1, c2, c3, w1, w2, w3

ThreeCalls == {c1, c2, c3}
ThreeWrites == {w1, w2, w3}

Symmetry == Permutations(ThreeCalls) \cup Permutations(Writes)

=============================================================================
