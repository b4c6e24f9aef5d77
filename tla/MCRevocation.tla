---------------------------- MODULE MCRevocation ----------------------------
(* Instances of Revocation for TLC.                                        *)
EXTENDS Revocation, TLC

CONSTANTS r1, r2, jti, sub

BothRequests == {r1, r2}
OneToken == {jti}
OneSubject == {sub}
ItsSubject == jti :> sub
\* A revocation of the subject at time 0 precedes the token.
Issued == jti :> 1
Expires == jti :> 6
BothForms == {"token", "subject"}

Symmetry == Permutations(BothRequests)

=============================================================================
