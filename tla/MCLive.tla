------------------------------- MODULE MCLive -------------------------------
(* Instances of Live for TLC.                                              *)
EXTENDS Live

CONSTANTS outer, inner, l1, l2, l3, r1, r2, r3, home, sibling, other

Flat   == [b \in Boundaries |-> {}]
Nested == [b \in Boundaries |-> IF b = inner THEN {outer} ELSE {}]

\* home and sibling have one layout, with every region in it; other has its own.
Layouts == [p \in Pages |-> [b \in Boundaries |-> IF p = other THEN other ELSE home]]

=============================================================================
