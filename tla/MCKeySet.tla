------------------------------ MODULE MCKeySet ------------------------------
(* Instances of KeySet for TLC.                                            *)
EXTENDS KeySet

CONSTANTS r1, r2, old, new

BothRequests == {r1, r2}
BothKids == {old, new}
\* One rotation: the old key is withdrawn when the new one is published.
OneRotation == <<{old}, {new}>>

=============================================================================
