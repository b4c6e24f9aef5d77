----------------------------- MODULE NestedWork -----------------------------
(***************************************************************************)
(* What pwruntime.Transaction promises its callers: a call collects work;  *)
(* when it succeeds its work joins its parent's, when it fails its work is *)
(* gone, and the outermost call publishes what it collected or nothing.    *)
(***************************************************************************)
CONSTANTS Calls, Root, Writes, None

VARIABLES
    pending,    \* the work collected by each open call, None for a closed one
    parent,     \* the call each open nested call was made in
    published   \* the work other transactions see

vars == <<pending, parent, published>>

Init ==
    /\ pending = [c \in Calls \cup {Root} |-> None]
    /\ parent = [c \in Calls |-> None]
    /\ published = {}

Begin ==
    /\ pending[Root] = None /\ published = {}
    /\ pending' = [pending EXCEPT ![Root] = {}]
    /\ UNCHANGED <<parent, published>>

Enter(c, p) ==
    /\ pending[c] = None /\ pending[p] # None
    /\ pending' = [pending EXCEPT ![c] = {}]
    /\ parent' = [parent EXCEPT ![c] = p]
    /\ UNCHANGED published

Work(c, w) ==
    /\ pending[c] # None
    /\ pending' = [pending EXCEPT ![c] = @ \cup {w}]
    /\ UNCHANGED <<parent, published>>

Succeed(c) ==
    /\ pending[c] # None /\ pending[parent[c]] # None
    /\ pending' = [pending EXCEPT ![c] = None, ![parent[c]] = @ \cup pending[c]]
    /\ parent' = [parent EXCEPT ![c] = None]
    /\ UNCHANGED published

Fail(c) ==
    /\ pending[c] # None
    /\ pending' = [pending EXCEPT ![c] = None]
    /\ parent' = [parent EXCEPT ![c] = None]
    /\ UNCHANGED published

\* All or nothing, and only what the calls that succeeded left.
Finish(done) ==
    /\ pending[Root] # None
    /\ pending' = [c \in Calls \cup {Root} |-> None]
    /\ parent' = [c \in Calls |-> None]
    /\ published' = IF done THEN pending[Root] ELSE published

Next ==
    \/ Begin
    \/ \E c \in Calls :
         \/ \E p \in (Calls \ {c}) \cup {Root} : Enter(c, p)
         \/ Succeed(c) \/ Fail(c)
    \/ \E c \in Calls \cup {Root}, w \in Writes : Work(c, w)
    \/ \E done \in BOOLEAN : Finish(done)

Spec == Init /\ [][Next]_vars

=============================================================================
