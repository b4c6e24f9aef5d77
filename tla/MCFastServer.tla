---------------------------- MODULE MCFastServer ----------------------------
(* Instances of FastServer for TLC.                                        *)
EXTENDS FastServer

CONSTANTS c1, c2

TwoConns == {c1, c2}

=============================================================================
