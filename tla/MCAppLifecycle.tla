--------------------------- MODULE MCAppLifecycle ---------------------------
(* Instances of AppLifecycle for TLC. *)
EXTENDS AppLifecycle

CONSTANTS o1, o2

TwoOthers == {o1, o2}

=============================================================================
