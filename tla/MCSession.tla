----------------------------- MODULE MCSession -----------------------------
(* Instances of Session for TLC. *)
EXTENDS Session, TLC

CONSTANTS r1, r2, login, flag

BothRequests == {r1, r2}
\* The login, which plugin/auth places Private, and a ServerOnly slot.
LoginAndFlag == {login, flag}
OnlyLogin == {login}

Symmetry == Permutations({r1, r2})

=============================================================================
