---------------------------- MODULE Transaction ----------------------------
(***************************************************************************)
(* pwruntime/transaction.go: one TransactionScope, the transaction it owns *)
(* and the calls of Transaction nested in it.  A nested call is a          *)
(* savepoint named after the scope's depth.  The scope's mutex covers the  *)
(* depth and the failed mark and never a statement, so calls on several    *)
(* goroutines, such as the requests of a test server sharing one           *)
(* transaction, interleave between the two.                                *)
(*                                                                         *)
(* The database is a stack of savepoints over a set of writes.  A name     *)
(* means its latest savepoint; ROLLBACK TO keeps the savepoint it names.   *)
(* Any statement may fail, with its effect landed or not.                  *)
(***************************************************************************)
EXTENDS Integers, Sequences, FiniteSets

CONSTANTS
    Calls,       \* nested calls of Transaction
    Root,        \* the outermost call
    Writes,      \* statements the callbacks run
    None,        \* no work, no parent
    Concurrent,  \* callbacks start goroutines that nest
    MaxFails     \* bound on failing statements

ASSUME TransactionAssumption ==
    /\ Root \notin Calls
    /\ Concurrent \in BOOLEAN
    /\ MaxFails \in Nat /\ IsFiniteSet(Calls)
    /\ None \notin Calls \cup {Root} /\ \A work \in SUBSET Writes : work # None

VARIABLES
    depth, failed,      \* the scope's fields
    tx,                 \* the outermost call's transaction: "none", "open", "over"
    dead,               \* the driver has rolled the transaction back by itself
    working,            \* writes in effect inside the transaction
    savepoints,         \* the database's stack: [name, writes when it was made]
    published,          \* committed writes
    call,               \* where each nested call stands
    fails,
    pending, parent     \* history: what NestedWork promises

scope == <<depth, failed>>
database == <<tx, dead, working, savepoints, published>>
history == <<pending, parent>>
vars == <<scope, database, call, fails, history>>

PC == {"free", "savepoint", "body", "release", "rollback", "unstack", "mark", "pop", "done"}
Parties == Calls \cup {Root}

Init ==
    /\ depth = 0 /\ failed = FALSE
    /\ tx = "none" /\ dead = FALSE /\ working = {} /\ savepoints = <<>> /\ published = {}
    /\ call = [c \in Calls |-> [pc |-> "free", name |-> 0]]
    /\ fails = 0
    /\ pending = [c \in Parties |-> None] /\ parent = [c \in Calls |-> None]

-----------------------------------------------------------------------------
(* The savepoint stack. *)

Named(n) == {i \in 1 .. Len(savepoints) : savepoints[i].name = n}
Latest(n) == CHOOSE i \in Named(n) : \A j \in Named(n) : j <= i

Stacked(n) == Append(savepoints, [name |-> n, writes |-> working])
Released(n) == SubSeq(savepoints, 1, Latest(n) - 1)
RolledBack(n) == SubSeq(savepoints, 1, Latest(n))

\* A statement that fails for a reason of its own.
StatementFails == fails < MaxFails /\ fails' = fails + 1

Goto(c, pc) == call' = [call EXCEPT ![c].pc = pc]

\* A call that is neither waiting to be made nor over.
Open(c) == call[c].pc \notin {"free", "done"}

\* The callback of c is running; without goroutines it waits for what it calls.
Runs(c) ==
    /\ c \in Calls => call[c].pc = "body"
    /\ ~Concurrent => \A d \in Calls : Open(d) => parent[d] # c

-----------------------------------------------------------------------------
(* The outermost call. *)

Begin ==
    /\ tx = "none"
    /\ tx' = "open"
    /\ pending' = [pending EXCEPT ![Root] = {}]
    /\ UNCHANGED <<scope, dead, working, savepoints, published, call, fails, parent>>

\* database/sql rolls a transaction back when the context it began with ends.
ContextEnds ==
    /\ tx = "open" /\ ~dead
    /\ fails < MaxFails /\ fails' = fails + 1
    /\ dead' = TRUE /\ working' = {} /\ savepoints' = <<>>
    /\ UNCHANGED <<scope, tx, published, call, history>>

\* The outermost callback is over once everything it started is.
RootReturns ==
    /\ tx = "open" /\ \A c \in Calls : ~Open(c)
    /\ tx' = "over"
    /\ pending' = [c \in Parties |-> None]

\* Commit of a scope no savepoint operation has failed on.
Commit ==
    /\ RootReturns
    /\ ~failed /\ ~dead
    /\ \/ published' = working /\ UNCHANGED fails
       \/ StatementFails /\ published' \in {published, working}
    /\ UNCHANGED <<scope, dead, working, savepoints, call, parent>>

\* Rollback of an unfinished call, Commit of a failed scope, Commit of a
\* transaction the driver has already ended.
Rollback ==
    /\ RootReturns
    /\ working' = {} /\ savepoints' = <<>>
    /\ UNCHANGED <<scope, dead, published, call, fails, parent>>

-----------------------------------------------------------------------------
(* A nested call. *)

\* Mutant: the depth is counted once for the name and once for the call.
PushCountsTwice(c, p) ==
    /\ tx = "open" /\ ~failed
    /\ call[c].pc = "free"
    /\ Runs(p)
    /\ depth' = depth + 2
    /\ call' = [call EXCEPT ![c] = [pc |-> "savepoint", name |-> depth + 1]]
    /\ parent' = [parent EXCEPT ![c] = p]
    /\ UNCHANGED <<failed, database, fails, pending>>

\* push under the mutex.  A failed or inactive scope refuses.
Push(c, p) ==
    /\ tx = "open" /\ ~failed
    /\ call[c].pc = "free"
    /\ Runs(p)
    /\ depth' = depth + 1
    /\ call' = [call EXCEPT ![c] = [pc |-> "savepoint", name |-> depth + 1]]
    /\ parent' = [parent EXCEPT ![c] = p]
    /\ UNCHANGED <<failed, database, fails, pending>>

\* SAVEPOINT.
Savepoint(c) ==
    /\ call[c].pc = "savepoint"
    /\ ~dead
    /\ savepoints' = Stacked(call[c].name)
    /\ Goto(c, "body")
    /\ pending' = [pending EXCEPT ![c] = {}]
    /\ UNCHANGED <<scope, tx, dead, working, published, fails, parent>>

\* SAVEPOINT fails, and the call with it.
SavepointFails(c) ==
    /\ call[c].pc = "savepoint"
    /\ \/ dead /\ UNCHANGED <<savepoints, fails>>
       \/ ~dead /\ StatementFails /\ savepoints' \in {savepoints, Stacked(call[c].name)}
    /\ Goto(c, "pop")
    /\ UNCHANGED <<scope, tx, dead, working, published, history>>

\* A callback runs a statement.
Work(c, w) ==
    /\ tx = "open" /\ ~dead /\ Runs(c)
    /\ w \notin working /\ \A d \in Parties : pending[d] # None => w \notin pending[d]
    /\ working' = working \cup {w}
    /\ pending' = [pending EXCEPT ![c] = @ \cup {w}]
    /\ UNCHANGED <<scope, tx, dead, savepoints, published, call, fails, parent>>

\* The callback returns nil, or an error or a panic.
Return(c) ==
    /\ call[c].pc = "body" /\ \A d \in Calls : Open(d) => parent[d] # c
    /\ \E pc \in {"release", "rollback"} : Goto(c, pc)
    /\ UNCHANGED <<scope, database, fails, history>>

\* release: RELEASE SAVEPOINT, after which the call has succeeded.
Release(c) ==
    /\ call[c].pc = "release"
    /\ ~dead /\ Named(call[c].name) # {}
    /\ savepoints' = Released(call[c].name)
    /\ Goto(c, "pop")
    /\ pending' = [pending EXCEPT ![c] = None, ![parent[c]] = @ \cup pending[c]]
    /\ UNCHANGED <<scope, tx, dead, working, published, fails, parent>>

\* rollbackTo: ROLLBACK TO SAVEPOINT.
RollbackTo(c) ==
    /\ call[c].pc = "rollback"
    /\ ~dead /\ Named(call[c].name) # {}
    /\ working' = savepoints[Latest(call[c].name)].writes
    /\ savepoints' = RolledBack(call[c].name)
    /\ Goto(c, "unstack")
    /\ pending' = [pending EXCEPT ![c] = None]
    /\ UNCHANGED <<scope, tx, dead, published, fails, parent>>

\* rollbackTo: the RELEASE SAVEPOINT after it.
Unstack(c) ==
    /\ call[c].pc = "unstack"
    /\ ~dead /\ Named(call[c].name) # {}
    /\ savepoints' = Released(call[c].name)
    /\ Goto(c, "pop")
    /\ UNCHANGED <<scope, tx, dead, working, published, fails, history>>

\* What a savepoint statement that fails may have done.
Landed(c) ==
    LET n == call[c].name
    IN  IF call[c].pc = "rollback"
        THEN working' = savepoints[Latest(n)].writes /\ savepoints' = RolledBack(n)
        ELSE working' = working /\ savepoints' = Released(n)

\* A statement of release or rollbackTo fails: of its own, or because the
\* transaction or the savepoint is gone.
SavepointLost(c) ==
    /\ call[c].pc \in {"release", "rollback", "unstack"}
    /\ \/ (dead \/ Named(call[c].name) = {}) /\ UNCHANGED <<working, savepoints, fails>>
       \/ /\ ~dead /\ Named(call[c].name) # {}
          /\ StatementFails
          /\ Landed(c) \/ UNCHANGED <<working, savepoints>>
    /\ Goto(c, "mark")
    /\ pending' = [pending EXCEPT ![c] = None]
    /\ UNCHANGED <<scope, tx, dead, published, parent>>

\* Mutant: the error is returned and the scope left as it was.
MarkFailedNot(c) ==
    /\ call[c].pc = "mark"
    /\ Goto(c, "pop")
    /\ UNCHANGED <<scope, database, fails, history>>

\* markFailed.
MarkFailed(c) ==
    /\ call[c].pc = "mark"
    /\ failed' = TRUE
    /\ Goto(c, "pop")
    /\ UNCHANGED <<depth, database, fails, history>>

\* Mutant: the depth only ever grows.
PopNothing(c) ==
    /\ call[c].pc = "pop"
    /\ Goto(c, "done")
    /\ UNCHANGED <<scope, database, fails, history>>

\* pop, and the nested call returns.
Pop(c) ==
    /\ call[c].pc = "pop"
    /\ depth' = IF depth > 0 THEN depth - 1 ELSE depth
    /\ Goto(c, "done")
    /\ UNCHANGED <<failed, database, fails, history>>

-----------------------------------------------------------------------------
NestedNext(c) ==
    \/ \E p \in Parties : Push(c, p)
    \/ Savepoint(c) \/ SavepointFails(c) \/ Return(c)
    \/ Release(c) \/ RollbackTo(c) \/ Unstack(c) \/ SavepointLost(c)
    \/ MarkFailed(c) \/ Pop(c)

Next ==
    \/ Begin \/ ContextEnds \/ Commit \/ Rollback
    \/ \E c \in Calls : NestedNext(c)
    \/ \E c \in Parties, w \in Writes : Work(c, w)

Spec == Init /\ [][Next]_vars

-----------------------------------------------------------------------------
Savepoints == [name : Nat, writes : SUBSET Writes]

TypeOK ==
    /\ depth \in 0 .. Cardinality(Calls) /\ failed \in BOOLEAN
    /\ tx \in {"none", "open", "over"} /\ dead \in BOOLEAN
    /\ working \subseteq Writes /\ published \subseteq Writes
    /\ savepoints \in Seq(Savepoints)
    /\ call \in [Calls -> [pc : PC, name : Nat]]
    /\ fails \in Nat
    /\ pending \in [Parties -> {None} \cup SUBSET Writes]
    /\ parent \in [Calls -> Parties \cup {None}]

(* The scope keeps the promise of NestedWork: what other transactions see   *)
(* is all of the work of calls that returned nil up to the outermost one,   *)
(* and nothing of a call that returned an error.                            *)
Promise == INSTANCE NestedWork
    WITH parent <- [c \in Calls |-> IF pending[c] = None THEN None ELSE parent[c]]
KeepsPromise == Promise!Spec

(* The depth counts the nested calls under way, so a savepoint's name is    *)
(* free again exactly when its call is over.                                *)
DepthCounts ==
    depth = Cardinality({c \in Calls : Open(c)})

=============================================================================
