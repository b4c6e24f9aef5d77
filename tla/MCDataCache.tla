---------------------------- MODULE MCDataCache ----------------------------
(* Small instances of DataCache for TLC. *)
EXTENDS DataCache, TLC

CONSTANTS alice, bob, c1, c2, c3, c4, u1, u2, t1, t2, quote, user, f1, f2

\* c1 and c2 are one reader's requests, c3 another's, c4 nobody's.
OneReader == [c \in Callers |-> alice]
Readers == [c \in Callers |-> IF c = c3 THEN bob ELSE IF c = c4 THEN Anonymous ELSE alice]
OneType == [c \in Callers |-> user]
TwoTypes == [c \in Callers |-> IF c = c2 THEN quote ELSE user]
NoTags == [c \in Callers |-> [id \in Ids |-> {}]]
\* c2's key type carries other tags than c1's, so a key is re-tagged by a put.
SomeTags == [c \in Callers |-> [id \in Ids |->
               IF c = c2 THEN {t2} ELSE IF id = u1 THEN {t1, t2} ELSE {t1}]]
=============================================================================
