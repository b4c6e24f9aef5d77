------------------------------ MODULE MCLogin ------------------------------
(* Instances of Login for TLC.                                             *)
EXTENDS Login, TLC

CONSTANTS r1, r2, alice, bob

BothRequests == {r1, r2}
BothAccounts == {alice, bob}

Symmetry == Permutations(BothRequests) \cup Permutations(BothAccounts)

=============================================================================
