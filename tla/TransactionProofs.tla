------------------------- MODULE TransactionProofs -------------------------
(* Theorems about a TransactionScope: for every finite set of calls, every *)
(* set of writes and any number of failing statements.                     *)
EXTENDS Transaction, FiniteSetTheorems, SequenceTheorems, TLAPS

(***************************************************************************)
(* The calls, whatever their goroutines do.                                *)
(***************************************************************************)
Collecting == {"body", "release", "rollback"}
OpenCalls == {c \in Calls : Open(c)}

\* A call collects work while its callback runs and until its outcome; it was
\* made by a callback that is still waiting for it.
CallsInv ==
    /\ \A c \in Calls : pending[c] # None <=> call[c].pc \in Collecting
    /\ pending[Root] # None <=> tx = "open"
    /\ tx # "open" => \A c \in Calls : ~Open(c)
    /\ tx = "none" => published = {} /\ working = {}
    /\ \A c \in Calls : Open(c) =>
          /\ parent[c] \in Parties \ {c}
          /\ parent[c] \in Calls => call[parent[c]].pc = "body"

ScopeInv == TypeOK /\ DepthCounts /\ CallsInv

(***************************************************************************)
(* The calls of one goroutine: a chain, and a savepoint for each.          *)
(***************************************************************************)
Rank(p) == IF p \in Calls THEN call[p].name ELSE 0

\* The open calls are numbered 1 to depth, each made by the one before it.
ChainInv ==
    /\ \A c \in Calls : Open(c) =>
          /\ call[c].name \in 1 .. depth
          /\ Rank(parent[c]) = call[c].name - 1
    /\ \A c, d \in Calls : Open(c) /\ Open(d) /\ call[c].name = call[d].name => c = d
    /\ \A n \in 1 .. depth : \E c \in Calls : Open(c) /\ call[c].name = n

\* The work collected by the calls outside the n-th.
Outside(n) ==
    {w \in Writes : \E p \in Parties : pending[p] # None /\ Rank(p) < n /\ w \in pending[p]}
Collected == {w \in Writes : \E p \in Parties : pending[p] # None /\ w \in pending[p]}

\* A transaction that will not be committed.
Doomed == dead \/ failed \/ \E c \in Calls : call[c].pc = "mark"

Kept(c) == call[c].pc \in Collecting \cup {"unstack"}
IsLatest(s, n, i) ==
    i \in 1 .. Len(s) /\ s[i].name = n /\ \A j \in 1 .. Len(s) : s[j].name = n => j <= i

(* The latest savepoint of each call's name is its own, made over the work *)
(* outside it, and the savepoints lie in the order of the calls.           *)
SavedInv ==
    /\ \A c \in Calls : Kept(c) =>
          \E i \in 1 .. Len(savepoints) :
              /\ IsLatest(savepoints, call[c].name, i)
              /\ savepoints[i].writes = Outside(call[c].name)
    /\ \A c, d \in Calls : Kept(c) /\ Kept(d) /\ call[c].name < call[d].name =>
          \A i, j \in 1 .. Len(savepoints) :
              IsLatest(savepoints, call[c].name, i) /\ IsLatest(savepoints, call[d].name, j)
                  => i < j

\* And the work in effect is the work collected.
StackInv == working = Collected /\ SavedInv

SequentialInv == ChainInv /\ (tx = "open" /\ ~Doomed => StackInv)

-----------------------------------------------------------------------------
(* Savepoints by name.                                                     *)

LEMMA LatestExists ==
    ASSUME savepoints \in Seq(Savepoints), NEW n, Named(n) # {}
    PROVE  Latest(n) \in Named(n) /\ IsLatest(savepoints, n, Latest(n))
<1> DEFINE L == Len(savepoints)
           T == {L - i : i \in Named(n)}
<1>1. L \in Nat /\ Named(n) \subseteq 1 .. L
  BY LenProperties DEF Named
<1>2. T \subseteq Nat /\ T # {}
  <2> HIDE DEF L
  <2> QED
    BY <1>1
<1>3. PICK x \in T : \A y \in T : ~(<<y, x>> \in OpToRel(<, Nat))
  BY <1>2, NatLessThanWellFounded, WFMin
<1>4. \A y \in T : x <= y
  <2>1. \A y \in T : <<y, x>> \in OpToRel(<, Nat) <=> y < x
    BY <1>2 DEF OpToRel
  <2> HIDE DEF T
  <2>2. \A y \in T : ~(y < x)
    BY <1>3, <2>1, Zenon
  <2> QED
    BY <1>2, <2>2
<1>5. PICK i \in Named(n) : x = L - i
  OBVIOUS
<1>6. \A j \in Named(n) : j <= i
  <2> HIDE DEF L
  <2>1. \A j \in Named(n) : L - i <= L - j
    BY <1>4, <1>5
  <2> QED
    BY <1>1, <2>1
<1>7. Latest(n) \in Named(n) /\ \A j \in Named(n) : j <= Latest(n)
  BY <1>6 DEF Latest
<1> QED
  BY <1>7 DEF IsLatest, Named

LEMMA LatestUnique ==
    ASSUME NEW s \in Seq(Savepoints), NEW n, NEW i, NEW j, IsLatest(s, n, i), IsLatest(s, n, j)
    PROVE  i = j
BY LenProperties DEF IsLatest

LEMMA LatestIs ==
    ASSUME savepoints \in Seq(Savepoints), NEW n, NEW i, IsLatest(savepoints, n, i)
    PROVE  Named(n) # {} /\ Latest(n) = i
<1>1. Named(n) # {}
  BY DEF IsLatest, Named
<1> QED
  BY <1>1, LatestExists, LatestUnique

LEMMA LatestAppend ==
    ASSUME NEW s \in Seq(Savepoints), NEW e \in Savepoints
    PROVE  /\ Append(s, e) \in Seq(Savepoints) /\ Len(Append(s, e)) = Len(s) + 1
           /\ IsLatest(Append(s, e), e.name, Len(s) + 1)
           /\ Append(s, e)[Len(s) + 1] = e
           /\ \A n, i : n # e.name /\ IsLatest(s, n, i) =>
                 IsLatest(Append(s, e), n, i) /\ Append(s, e)[i] = s[i]
<1> DEFINE a == Append(s, e)
<1>1. /\ a \in Seq(Savepoints) /\ Len(a) = Len(s) + 1 /\ a[Len(s) + 1] = e
      /\ \A i \in 1 .. Len(s) : a[i] = s[i]
      /\ Len(s) \in Nat
  BY AppendProperties, LenProperties
<1> HIDE DEF a
<1>2. IsLatest(a, e.name, Len(s) + 1)
  BY <1>1 DEF IsLatest
<1>3. ASSUME NEW n, NEW i, n # e.name, IsLatest(s, n, i)
      PROVE  IsLatest(a, n, i) /\ a[i] = s[i]
  BY <1>1, <1>3 DEF IsLatest
<1> QED
  BY <1>1, <1>2, <1>3 DEF a

LEMMA LatestCut ==
    ASSUME NEW s \in Seq(Savepoints), NEW m \in 0 .. Len(s)
    PROVE  /\ SubSeq(s, 1, m) \in Seq(Savepoints)
           /\ \A n, i : i <= m /\ IsLatest(s, n, i) =>
                 IsLatest(SubSeq(s, 1, m), n, i) /\ SubSeq(s, 1, m)[i] = s[i]
<1> DEFINE a == SubSeq(s, 1, m)
<1>1. a \in Seq(Savepoints) /\ Len(a) = m /\ \A i \in 1 .. m : a[i] = s[i]
  BY SubSeqProperties, LenProperties
<1>2. Len(s) \in Nat /\ m \in Nat /\ m <= Len(s)
  BY LenProperties
<1> HIDE DEF a
<1>3. ASSUME NEW n, NEW i, i <= m, IsLatest(s, n, i)
      PROVE  IsLatest(a, n, i) /\ a[i] = s[i]
  BY <1>1, <1>2, <1>3 DEF IsLatest
<1> QED
  BY <1>1, <1>3 DEF a

-----------------------------------------------------------------------------
(* Where the calls stand.                                                  *)

LEMMA GotoType ==
    ASSUME call \in [Calls -> [pc : PC, name : Nat]], NEW c \in Calls, NEW pc \in PC, Goto(c, pc)
    PROVE  /\ call' \in [Calls -> [pc : PC, name : Nat]]
           /\ call'[c].pc = pc /\ call'[c].name = call[c].name
           /\ \A d \in Calls : d # c => call'[d] = call[d]
           /\ \A d \in Calls : call'[d].name = call[d].name
BY DEF Goto

LEMMA CountType ==
    /\ IsFiniteSet(OpenCalls) /\ Cardinality(OpenCalls) \in Nat
    /\ Cardinality(Calls) \in Nat /\ Cardinality(OpenCalls) <= Cardinality(Calls)
<1>1. OpenCalls \subseteq Calls /\ IsFiniteSet(Calls)
  BY TransactionAssumption DEF OpenCalls
<1> QED
  BY <1>1, FS_Subset, FS_CardinalityType

\* A call that is past its callback has made none that is open.
LEMMA Childless ==
    ASSUME CallsInv, NEW c \in Calls, call[c].pc # "body"
    PROVE  \A d \in Calls : Open(d) => parent[d] # c
BY DEF CallsInv

(* An open call moves on and stays open. *)
LEMMA MoveInv ==
    ASSUME ScopeInv, NEW c \in Calls, Open(c), NEW pc \in PC \ {"free", "done"}, Goto(c, pc),
           \A d \in Calls : Open(d) => parent[d] # c,
           UNCHANGED <<depth, parent, tx, published>>
    PROVE  /\ call' \in [Calls -> [pc : PC, name : Nat]]
           /\ \A d \in Calls : Open(d)' <=> Open(d)
           /\ DepthCounts' /\ depth' \in 0 .. Cardinality(Calls)
           /\ parent' \in [Calls -> Parties \cup {None}] /\ tx' = "open"
           /\ \A d \in Calls : Open(d)' =>
                 /\ parent'[d] \in Parties \ {d}
                 /\ parent'[d] \in Calls => call'[parent'[d]].pc = "body"
<1>0. TypeOK /\ DepthCounts /\ CallsInv
  BY DEF ScopeInv
<1>1. /\ call' \in [Calls -> [pc : PC, name : Nat]] /\ call'[c].pc = pc
      /\ \A d \in Calls : d # c => call'[d] = call[d]
  BY <1>0, GotoType DEF TypeOK
<1>2. \A d \in Calls : Open(d)' <=> Open(d)
  BY <1>1 DEF Open
<1>3. {d \in Calls : Open(d)}' = {d \in Calls : Open(d)}
  BY <1>2
<1>4. DepthCounts'
  BY <1>0, <1>3 DEF DepthCounts
<1>5. tx = "open"
  BY <1>0 DEF CallsInv
<1>6. \A d \in Calls : Open(d)' =>
          /\ parent'[d] \in Parties \ {d}
          /\ parent'[d] \in Calls => call'[parent'[d]].pc = "body"
  BY <1>0, <1>1, <1>2 DEF CallsInv
<1> QED
  BY <1>0, <1>1, <1>2, <1>4, <1>5, <1>6 DEF TypeOK

-----------------------------------------------------------------------------
(* The scope, action by action, on any number of goroutines.               *)

LEMMA NoneType == None \notin SUBSET Writes /\ {} \in SUBSET Writes /\ Root \in Parties
                  /\ Calls \subseteq Parties /\ Root # None
BY TransactionAssumption DEF Parties

LEMMA PendingType ==
    ASSUME ScopeInv, NEW c \in Calls, call[c].pc \in Collecting
    PROVE  /\ pending[c] \in SUBSET Writes /\ pending[c] # None
           /\ parent[c] \in Parties /\ parent[c] # c
           /\ pending[parent[c]] \in SUBSET Writes /\ pending[parent[c]] # None
<1>0. TypeOK /\ CallsInv /\ Open(c)
  BY DEF ScopeInv, Open, Collecting
<1>1. pending[c] # None /\ pending[c] \in SUBSET Writes
  BY <1>0, NoneType DEF CallsInv, TypeOK
<1>2. tx = "open" /\ parent[c] \in Parties /\ parent[c] # c
  BY <1>0 DEF CallsInv
<1>3. pending[parent[c]] # None
  BY <1>0, <1>2 DEF CallsInv, Parties, Collecting
<1> QED
  BY <1>0, <1>1, <1>2, <1>3 DEF TypeOK

LEMMA PushScope ==
    ASSUME ScopeInv, NEW c \in Calls, NEW p \in Parties, Push(c, p)
    PROVE  ScopeInv'
<1>0. TypeOK /\ DepthCounts /\ CallsInv
  BY DEF ScopeInv
<1>1. /\ call[c].pc = "free" /\ tx = "open" /\ depth' = depth + 1
      /\ call' = [call EXCEPT ![c] = [pc |-> "savepoint", name |-> depth + 1]]
      /\ parent' = [parent EXCEPT ![c] = p]
      /\ UNCHANGED <<failed, tx, dead, working, savepoints, published, fails, pending>>
      /\ p \in Calls => call[p].pc = "body"
  BY DEF Push, database, Runs
<1>2. depth \in Nat
  BY <1>0, CountType DEF TypeOK
<1>3. /\ call' \in [Calls -> [pc : PC, name : Nat]] /\ call'[c].pc = "savepoint"
      /\ \A d \in Calls : d # c => call'[d] = call[d]
  BY <1>0, <1>1, <1>2 DEF TypeOK, PC
<1>4. /\ \A d \in Calls : Open(d)' <=> d = c \/ Open(d)
      /\ ~Open(c)
  BY <1>1, <1>3 DEF Open
<1>5. OpenCalls' = OpenCalls \cup {c} /\ c \notin OpenCalls
  BY <1>4 DEF OpenCalls
<1>6. Cardinality(OpenCalls') = depth + 1
  BY <1>0, <1>5, CountType, FS_AddElement DEF DepthCounts, OpenCalls
<1>7. DepthCounts'
  BY <1>1, <1>6 DEF DepthCounts, OpenCalls
<1>8. OpenCalls' \subseteq Calls
  BY <1>5 DEF OpenCalls
<1>9. Cardinality(OpenCalls') <= Cardinality(Calls) /\ Cardinality(Calls) \in Nat
  BY <1>8, TransactionAssumption, FS_Subset, FS_CardinalityType
<1>10. depth' \in 0 .. Cardinality(Calls)
  BY <1>1, <1>2, <1>6, <1>9
<1>11. /\ parent' \in [Calls -> Parties \cup {None}] /\ parent'[c] = p /\ p # c
       /\ \A d \in Calls : d # c => parent'[d] = parent[d]
  BY <1>0, <1>1 DEF TypeOK
<1>12. TypeOK'
  BY <1>0, <1>1, <1>3, <1>10, <1>11 DEF TypeOK
<1>13. CallsInv'
  <2>1. \A d \in Calls : (pending[d] # None)' <=> call'[d].pc \in Collecting
    BY <1>0, <1>1, <1>3 DEF CallsInv, Collecting
  <2>2. \A d \in Calls : Open(d)' =>
          /\ parent'[d] \in Parties \ {d}
          /\ parent'[d] \in Calls => call'[parent'[d]].pc = "body"
    BY <1>0, <1>1, <1>3, <1>4, <1>11 DEF CallsInv
  <2> QED
    BY <1>0, <1>1, <2>1, <2>2 DEF CallsInv
<1> QED
  BY <1>7, <1>12, <1>13 DEF ScopeInv

LEMMA PopScope ==
    ASSUME ScopeInv, NEW c \in Calls, Pop(c)
    PROVE  ScopeInv' /\ depth' = depth - 1 /\ OpenCalls' = OpenCalls \ {c}
<1>0. TypeOK /\ DepthCounts /\ CallsInv
  BY DEF ScopeInv
<1>1. /\ call[c].pc = "pop" /\ depth' = IF depth > 0 THEN depth - 1 ELSE depth
      /\ Goto(c, "done")
      /\ UNCHANGED <<failed, tx, dead, working, savepoints, published, fails, pending, parent>>
  BY DEF Pop, database, history
<1>2. /\ call' \in [Calls -> [pc : PC, name : Nat]] /\ call'[c].pc = "done"
      /\ \A d \in Calls : d # c => call'[d] = call[d]
  BY <1>0, <1>1, GotoType DEF TypeOK, PC
<1>3. /\ \A d \in Calls : Open(d)' <=> d # c /\ Open(d)
      /\ Open(c)
  BY <1>1, <1>2 DEF Open
<1>4. OpenCalls' = OpenCalls \ {c} /\ c \in OpenCalls
  BY <1>3 DEF OpenCalls
<1>5. Cardinality(OpenCalls') = depth - 1
  BY <1>0, <1>4, CountType, FS_RemoveElement DEF DepthCounts, OpenCalls
<1>6. OpenCalls' \subseteq Calls
  BY <1>4 DEF OpenCalls
<1>7. /\ Cardinality(OpenCalls') <= Cardinality(Calls) /\ Cardinality(Calls) \in Nat
      /\ Cardinality(OpenCalls') \in Nat
  BY <1>6, TransactionAssumption, FS_Subset, FS_CardinalityType
<1>8. depth' = depth - 1 /\ depth' \in 0 .. Cardinality(Calls)
  BY <1>0, <1>1, <1>5, <1>7, CountType DEF TypeOK
<1>9. DepthCounts'
  BY <1>5, <1>8 DEF DepthCounts, OpenCalls
<1>10. TypeOK'
  BY <1>0, <1>1, <1>2, <1>8 DEF TypeOK
<1>11. CallsInv'
  <2>1. \A d \in Calls : (pending[d] # None)' <=> call'[d].pc \in Collecting
    BY <1>0, <1>1, <1>2 DEF CallsInv, Collecting
  <2>2. \A d \in Calls : Open(d)' =>
          /\ parent'[d] \in Parties \ {d}
          /\ parent'[d] \in Calls => call'[parent'[d]].pc = "body"
    BY <1>0, <1>1, <1>2, <1>3 DEF CallsInv
  <2> QED
    BY <1>0, <1>1, <1>3, <2>1, <2>2 DEF CallsInv
<1> QED
  BY <1>4, <1>8, <1>9, <1>10, <1>11 DEF ScopeInv

(* A move, with what it does to the database and to the work collected. *)
LEMMA MoveScope ==
    ASSUME ScopeInv, NEW c \in Calls, Open(c), NEW pc \in PC \ {"free", "done"}, Goto(c, pc),
           \A d \in Calls : Open(d) => parent[d] # c,
           UNCHANGED <<depth, dead, parent, tx, published>>,
           failed' \in BOOLEAN, fails' \in Nat, working' \subseteq Writes,
           savepoints' \in Seq(Savepoints),
           pending' \in [Parties -> {None} \cup SUBSET Writes],
           pending'[c] # None <=> pc \in Collecting,
           \A p \in Parties : p # c => (pending'[p] # None <=> pending[p] # None)
    PROVE  ScopeInv'
<1>0. TypeOK /\ CallsInv
  BY DEF ScopeInv
<1>1. /\ call' \in [Calls -> [pc : PC, name : Nat]]
      /\ \A d \in Calls : Open(d)' <=> Open(d)
      /\ DepthCounts' /\ depth' \in 0 .. Cardinality(Calls)
      /\ parent' \in [Calls -> Parties \cup {None}] /\ tx' = "open"
      /\ \A d \in Calls : Open(d)' =>
            /\ parent'[d] \in Parties \ {d}
            /\ parent'[d] \in Calls => call'[parent'[d]].pc = "body"
  BY MoveInv
<1>2. call'[c].pc = pc /\ \A d \in Calls : d # c => call'[d] = call[d]
  BY <1>0, GotoType DEF TypeOK
<1>3. TypeOK'
  BY <1>0, <1>1 DEF TypeOK
<1>4. \A d \in Calls : pending'[d] # None <=> call'[d].pc \in Collecting
  BY <1>0, <1>2, NoneType DEF CallsInv
<1>5. pending'[Root] # None <=> tx' = "open"
  BY <1>0, NoneType, TransactionAssumption DEF CallsInv
<1>6. CallsInv'
  BY <1>0, <1>1, <1>4, <1>5 DEF CallsInv
<1> QED
  BY <1>1, <1>3, <1>6 DEF ScopeInv

(* The statements of a savepoint give stacks of savepoints. *)
LEMMA StackedType ==
    ASSUME TypeOK, NEW c \in Calls
    PROVE  /\ Stacked(call[c].name) \in Seq(Savepoints)
           /\ [name |-> call[c].name, writes |-> working] \in Savepoints
<1>1. [name |-> call[c].name, writes |-> working] \in Savepoints
  BY DEF TypeOK, Savepoints
<1> QED
  BY <1>1, LatestAppend DEF Stacked, TypeOK

LEMMA CutType ==
    ASSUME TypeOK, NEW n, Named(n) # {}
    PROVE  /\ Latest(n) \in 1 .. Len(savepoints)
           /\ Latest(n) - 1 \in 0 .. Len(savepoints) /\ Latest(n) \in 0 .. Len(savepoints)
           /\ Released(n) \in Seq(Savepoints) /\ RolledBack(n) \in Seq(Savepoints)
           /\ savepoints[Latest(n)].writes \subseteq Writes
<1>0. savepoints \in Seq(Savepoints) /\ Len(savepoints) \in Nat
  BY LenProperties DEF TypeOK
<1>1. Latest(n) \in 1 .. Len(savepoints)
  BY <1>0, LatestExists DEF Named
<1>2. Latest(n) - 1 \in 0 .. Len(savepoints) /\ Latest(n) \in 0 .. Len(savepoints)
  BY <1>0, <1>1
<1>3. Released(n) \in Seq(Savepoints) /\ RolledBack(n) \in Seq(Savepoints)
  BY <1>0, <1>2, LatestCut DEF Released, RolledBack
<1>4. savepoints[Latest(n)] \in Savepoints
  BY <1>0, <1>1, ElementOfSeq
<1> QED
  BY <1>1, <1>2, <1>3, <1>4 DEF Savepoints

LEMMA StatementFailsType == TypeOK /\ (StatementFails \/ UNCHANGED fails) => fails' \in Nat
BY DEF TypeOK, StatementFails

LEMMA SavepointScope ==
    ASSUME ScopeInv, NEW c \in Calls, Savepoint(c)
    PROVE  ScopeInv'
<1>0. TypeOK /\ CallsInv
  BY DEF ScopeInv
<1>1. /\ call[c].pc = "savepoint" /\ savepoints' = Stacked(call[c].name) /\ Goto(c, "body")
      /\ pending' = [pending EXCEPT ![c] = {}]
      /\ UNCHANGED <<depth, failed, tx, dead, working, published, fails, parent>>
  BY DEF Savepoint, scope
<1>2. Open(c) /\ "body" \in PC \ {"free", "done"} /\ "body" \in Collecting
  BY <1>1 DEF Open, PC, Collecting
<1>3. \A d \in Calls : Open(d) => parent[d] # c
  BY <1>0, <1>1, Childless
<1>4. /\ pending' \in [Parties -> {None} \cup SUBSET Writes] /\ pending'[c] # None
      /\ \A p \in Parties : p # c => pending'[p] = pending[p]
  BY <1>0, <1>1, NoneType DEF TypeOK
<1>5. savepoints' \in Seq(Savepoints)
  BY <1>0, <1>1, StackedType
<1>6. failed' \in BOOLEAN /\ fails' \in Nat /\ working' \subseteq Writes
  BY <1>0, <1>1 DEF TypeOK
<1> QED
  BY <1>1, <1>2, <1>3, <1>4, <1>5, <1>6, MoveScope

LEMMA SavepointFailsScope ==
    ASSUME ScopeInv, NEW c \in Calls, SavepointFails(c)
    PROVE  ScopeInv'
<1>0. TypeOK /\ CallsInv
  BY DEF ScopeInv
<1>1. /\ call[c].pc = "savepoint" /\ savepoints' \in {savepoints, Stacked(call[c].name)}
      /\ StatementFails \/ UNCHANGED fails
      /\ Goto(c, "pop")
      /\ UNCHANGED <<depth, failed, tx, dead, working, published, pending, parent>>
  BY DEF SavepointFails, scope, history
<1>2. Open(c) /\ "pop" \in PC \ {"free", "done"} /\ "pop" \notin Collecting
  BY <1>1 DEF Open, PC, Collecting
<1>3. \A d \in Calls : Open(d) => parent[d] # c
  BY <1>0, <1>1, Childless
<1>4. /\ pending' \in [Parties -> {None} \cup SUBSET Writes] /\ pending'[c] = None
      /\ \A p \in Parties : p # c => pending'[p] = pending[p]
  BY <1>0, <1>1 DEF TypeOK, CallsInv, Collecting
<1>5. savepoints' \in Seq(Savepoints)
  BY <1>0, <1>1, StackedType DEF TypeOK
<1>6. failed' \in BOOLEAN /\ fails' \in Nat /\ working' \subseteq Writes
  BY <1>0, <1>1, StatementFailsType DEF TypeOK
<1> QED
  BY <1>1, <1>2, <1>3, <1>4, <1>5, <1>6, MoveScope

LEMMA ReturnScope ==
    ASSUME ScopeInv, NEW c \in Calls, Return(c)
    PROVE  ScopeInv'
<1>0. TypeOK /\ CallsInv
  BY DEF ScopeInv
<1>1. PICK pc \in {"release", "rollback"} : Goto(c, pc)
  BY DEF Return
<1>2. /\ call[c].pc = "body" /\ \A d \in Calls : Open(d) => parent[d] # c
      /\ UNCHANGED <<depth, failed, tx, dead, working, savepoints, published, fails,
                     pending, parent>>
  BY DEF Return, scope, database, history
<1>3. Open(c) /\ pc \in PC \ {"free", "done"} /\ pc \in Collecting
  BY <1>2 DEF Open, PC, Collecting
<1>4. pending[c] # None
  BY <1>0, <1>2 DEF CallsInv, Collecting
<1>5. /\ failed' \in BOOLEAN /\ fails' \in Nat /\ working' \subseteq Writes
      /\ savepoints' \in Seq(Savepoints) /\ pending' \in [Parties -> {None} \cup SUBSET Writes]
  BY <1>0, <1>2 DEF TypeOK
<1> QED
  BY <1>1, <1>2, <1>3, <1>4, <1>5, MoveScope

LEMMA ReleaseScope ==
    ASSUME ScopeInv, NEW c \in Calls, Release(c)
    PROVE  ScopeInv'
<1>0. TypeOK /\ CallsInv
  BY DEF ScopeInv
<1>1. /\ call[c].pc = "release" /\ Named(call[c].name) # {}
      /\ savepoints' = Released(call[c].name) /\ Goto(c, "pop")
      /\ pending' = [pending EXCEPT ![c] = None, ![parent[c]] = @ \cup pending[c]]
      /\ UNCHANGED <<depth, failed, tx, dead, working, published, fails, parent>>
  BY DEF Release, scope
<1>2. Open(c) /\ "pop" \in PC \ {"free", "done"} /\ "pop" \notin Collecting
  BY <1>1 DEF Open, PC, Collecting
<1>3. \A d \in Calls : Open(d) => parent[d] # c
  BY <1>0, <1>1, Childless
<1>4. /\ pending[c] \in SUBSET Writes
      /\ parent[c] \in Parties /\ parent[c] # c
      /\ pending[parent[c]] \in SUBSET Writes /\ pending[parent[c]] # None
  BY <1>1, PendingType DEF Collecting
<1>5. /\ pending' \in [Parties -> {None} \cup SUBSET Writes] /\ pending'[c] = None
      /\ \A p \in Parties : p # c => (pending'[p] # None <=> pending[p] # None)
  BY <1>0, <1>1, <1>4, NoneType DEF TypeOK
<1>6. savepoints' \in Seq(Savepoints)
  BY <1>0, <1>1, CutType
<1>7. failed' \in BOOLEAN /\ fails' \in Nat /\ working' \subseteq Writes
  BY <1>0, <1>1 DEF TypeOK
<1> QED
  BY <1>1, <1>2, <1>3, <1>5, <1>6, <1>7, MoveScope

LEMMA RollbackToScope ==
    ASSUME ScopeInv, NEW c \in Calls, RollbackTo(c)
    PROVE  ScopeInv'
<1>0. TypeOK /\ CallsInv
  BY DEF ScopeInv
<1>1. /\ call[c].pc = "rollback" /\ Named(call[c].name) # {}
      /\ working' = savepoints[Latest(call[c].name)].writes
      /\ savepoints' = RolledBack(call[c].name) /\ Goto(c, "unstack")
      /\ pending' = [pending EXCEPT ![c] = None]
      /\ UNCHANGED <<depth, failed, tx, dead, published, fails, parent>>
  BY DEF RollbackTo, scope
<1>2. Open(c) /\ "unstack" \in PC \ {"free", "done"} /\ "unstack" \notin Collecting
  BY <1>1 DEF Open, PC, Collecting
<1>3. \A d \in Calls : Open(d) => parent[d] # c
  BY <1>0, <1>1, Childless
<1>4. /\ pending' \in [Parties -> {None} \cup SUBSET Writes] /\ pending'[c] = None
      /\ \A p \in Parties : p # c => pending'[p] = pending[p]
  BY <1>0, <1>1, NoneType DEF TypeOK
<1>5. savepoints' \in Seq(Savepoints) /\ working' \subseteq Writes
  BY <1>0, <1>1, CutType
<1>6. failed' \in BOOLEAN /\ fails' \in Nat
  BY <1>0, <1>1 DEF TypeOK
<1> QED
  BY <1>1, <1>2, <1>3, <1>4, <1>5, <1>6, MoveScope

LEMMA UnstackScope ==
    ASSUME ScopeInv, NEW c \in Calls, Unstack(c)
    PROVE  ScopeInv'
<1>0. TypeOK /\ CallsInv
  BY DEF ScopeInv
<1>1. /\ call[c].pc = "unstack" /\ Named(call[c].name) # {}
      /\ savepoints' = Released(call[c].name) /\ Goto(c, "pop")
      /\ UNCHANGED <<depth, failed, tx, dead, working, published, fails, pending, parent>>
  BY DEF Unstack, scope, history
<1>2. Open(c) /\ "pop" \in PC \ {"free", "done"} /\ "pop" \notin Collecting
  BY <1>1 DEF Open, PC, Collecting
<1>3. \A d \in Calls : Open(d) => parent[d] # c
  BY <1>0, <1>1, Childless
<1>4. /\ pending' \in [Parties -> {None} \cup SUBSET Writes] /\ pending'[c] = None
      /\ \A p \in Parties : p # c => pending'[p] = pending[p]
  BY <1>0, <1>1 DEF TypeOK, CallsInv, Collecting
<1>5. savepoints' \in Seq(Savepoints)
  BY <1>0, <1>1, CutType
<1>6. failed' \in BOOLEAN /\ fails' \in Nat /\ working' \subseteq Writes
  BY <1>0, <1>1 DEF TypeOK
<1> QED
  BY <1>1, <1>2, <1>3, <1>4, <1>5, <1>6, MoveScope

LEMMA LostScope ==
    ASSUME ScopeInv, NEW c \in Calls, SavepointLost(c)
    PROVE  ScopeInv'
<1>0. TypeOK /\ CallsInv
  BY DEF ScopeInv
<1>1. /\ call[c].pc \in {"release", "rollback", "unstack"} /\ Goto(c, "mark")
      /\ pending' = [pending EXCEPT ![c] = None]
      /\ StatementFails \/ UNCHANGED fails
      /\ UNCHANGED <<depth, failed, tx, dead, published, parent>>
  BY DEF SavepointLost, scope
<1>2. Open(c) /\ "mark" \in PC \ {"free", "done"} /\ "mark" \notin Collecting
  BY <1>1 DEF Open, PC, Collecting
<1>3. \A d \in Calls : Open(d) => parent[d] # c
  BY <1>0, <1>1, Childless
<1>4. /\ pending' \in [Parties -> {None} \cup SUBSET Writes] /\ pending'[c] = None
      /\ \A p \in Parties : p # c => pending'[p] = pending[p]
  BY <1>0, <1>1, NoneType DEF TypeOK
<1>5. savepoints' \in Seq(Savepoints) /\ working' \subseteq Writes
  <2>1. CASE UNCHANGED <<working, savepoints>>
    BY <1>0, <2>1 DEF TypeOK
  <2>2. CASE Named(call[c].name) # {} /\ Landed(c)
    BY <1>0, <2>2, CutType DEF Landed, TypeOK
  <2> QED
    BY <2>1, <2>2 DEF SavepointLost
<1>6. failed' \in BOOLEAN /\ fails' \in Nat
  BY <1>0, <1>1, StatementFailsType DEF TypeOK
<1> QED
  BY <1>1, <1>2, <1>3, <1>4, <1>5, <1>6, MoveScope

LEMMA MarkScope ==
    ASSUME ScopeInv, NEW c \in Calls, MarkFailed(c)
    PROVE  ScopeInv'
<1>0. TypeOK /\ CallsInv
  BY DEF ScopeInv
<1>1. /\ call[c].pc = "mark" /\ failed' = TRUE /\ Goto(c, "pop")
      /\ UNCHANGED <<depth, tx, dead, working, savepoints, published, fails, pending, parent>>
  BY DEF MarkFailed, database, history
<1>2. Open(c) /\ "pop" \in PC \ {"free", "done"} /\ "pop" \notin Collecting
  BY <1>1 DEF Open, PC, Collecting
<1>3. \A d \in Calls : Open(d) => parent[d] # c
  BY <1>0, <1>1, Childless
<1>4. pending[c] = None
  BY <1>0, <1>1 DEF CallsInv, Collecting
<1>5. /\ failed' \in BOOLEAN /\ fails' \in Nat /\ working' \subseteq Writes
      /\ savepoints' \in Seq(Savepoints) /\ pending' \in [Parties -> {None} \cup SUBSET Writes]
  BY <1>0, <1>1 DEF TypeOK
<1> QED
  BY <1>1, <1>2, <1>3, <1>4, <1>5, MoveScope

LEMMA WorkScope ==
    ASSUME ScopeInv, NEW c \in Parties, NEW w \in Writes, Work(c, w)
    PROVE  /\ ScopeInv' /\ pending[c] \in SUBSET Writes /\ pending[c] # None
           /\ pending'[c] = pending[c] \cup {w}
           /\ \A p \in Parties : p # c => pending'[p] = pending[p]
<1>0. TypeOK /\ DepthCounts /\ CallsInv
  BY DEF ScopeInv
<1>1. /\ tx = "open" /\ working' = working \cup {w} /\ (c \in Calls => call[c].pc = "body")
      /\ pending' = [pending EXCEPT ![c] = @ \cup {w}]
      /\ UNCHANGED <<depth, failed, tx, dead, savepoints, published, call, fails, parent>>
  BY DEF Work, scope, Runs
<1>2. pending[c] # None /\ pending[c] \in SUBSET Writes
  BY <1>0, <1>1 DEF CallsInv, Parties, Collecting, TypeOK
<1>3. /\ pending' \in [Parties -> {None} \cup SUBSET Writes]
      /\ pending'[c] = pending[c] \cup {w} /\ pending'[c] # None
      /\ \A p \in Parties : p # c => pending'[p] = pending[p]
  BY <1>0, <1>1, <1>2, NoneType DEF TypeOK
<1>4. TypeOK'
  BY <1>0, <1>1, <1>3 DEF TypeOK
<1>5. DepthCounts'
  BY <1>0, <1>1 DEF DepthCounts, Open
<1>6. CallsInv'
  <2>1. \A p \in Parties : pending'[p] # None <=> pending[p] # None
    BY <1>2, <1>3
  <2> QED
    BY <1>0, <1>1, <2>1, NoneType DEF CallsInv, Open
<1> QED
  BY <1>2, <1>3, <1>4, <1>5, <1>6 DEF ScopeInv

LEMMA RootScope ==
    ASSUME ScopeInv, Begin \/ ContextEnds \/ Commit \/ Rollback
    PROVE  ScopeInv'
<1>0. TypeOK /\ DepthCounts /\ CallsInv
  BY DEF ScopeInv
<1>a. UNCHANGED <<depth, failed, call, parent>>
  BY DEF Begin, ContextEnds, Commit, Rollback, scope, history
<1>b. DepthCounts'
  BY <1>0, <1>a DEF DepthCounts, Open
<1>c. <<>> \in Seq(Savepoints)
  BY EmptySeq
<1>1. CASE Begin
  <2>1. /\ tx = "none" /\ tx' = "open" /\ pending' = [pending EXCEPT ![Root] = {}]
        /\ UNCHANGED <<dead, working, savepoints, published, fails>>
    BY <1>1 DEF Begin
  <2>2. /\ pending' \in [Parties -> {None} \cup SUBSET Writes] /\ pending'[Root] # None
        /\ \A p \in Calls : pending'[p] = pending[p]
    BY <1>0, <2>1, NoneType, TransactionAssumption DEF TypeOK
  <2>3. TypeOK'
    BY <1>0, <1>a, <2>1, <2>2 DEF TypeOK
  <2>4. CallsInv'
    BY <1>0, <1>a, <2>1, <2>2 DEF CallsInv, Open
  <2> QED
    BY <1>b, <2>3, <2>4 DEF ScopeInv
<1>2. CASE ContextEnds
  <2>1. /\ fails' = fails + 1 /\ dead' = TRUE /\ working' = {} /\ savepoints' = <<>>
        /\ UNCHANGED <<tx, published, pending>>
    BY <1>2 DEF ContextEnds, history
  <2>2. TypeOK'
    BY <1>0, <1>a, <1>c, <2>1 DEF TypeOK
  <2>3. CallsInv'
    BY <1>0, <1>a, <2>1 DEF CallsInv, Open
  <2> QED
    BY <1>b, <2>2, <2>3 DEF ScopeInv
<1>3. CASE Commit \/ Rollback
  <2>1. /\ tx = "open" /\ (\A c \in Calls : ~Open(c)) /\ tx' = "over"
        /\ pending' = [c \in Parties |-> None]
        /\ published' \in {published, working} /\ working' \in {working, {}}
        /\ savepoints' \in {savepoints, <<>>}
        /\ StatementFails \/ UNCHANGED fails
        /\ UNCHANGED dead
    BY <1>3 DEF Commit, Rollback, RootReturns
  <2>2. pending' \in [Parties -> {None} \cup SUBSET Writes] /\ \A p \in Parties : pending'[p] = None
    BY <2>1
  <2>3. fails' \in Nat
    BY <1>0, <2>1, StatementFailsType
  <2>4. published' \subseteq Writes /\ working' \subseteq Writes /\ savepoints' \in Seq(Savepoints)
    BY <1>0, <1>c, <2>1 DEF TypeOK
  <2>5. TypeOK'
    BY <1>0, <1>a, <2>1, <2>2, <2>3, <2>4 DEF TypeOK
  <2>6. \A c \in Calls : ~Open(c)'
    BY <1>a, <2>1 DEF Open
  <2>7. \A c \in Calls : call'[c].pc \notin Collecting
    BY <2>6 DEF Open, Collecting
  <2>8. CallsInv'
    BY <2>1, <2>2, <2>6, <2>7, NoneType DEF CallsInv
  <2> QED
    BY <1>b, <2>5, <2>8 DEF ScopeInv
<1> QED
  BY <1>1, <1>2, <1>3

LEMMA ScopeInit == Init => ScopeInv
<1> SUFFICES ASSUME Init PROVE ScopeInv
  OBVIOUS
<1>1. /\ call \in [Calls -> [pc : PC, name : Nat]]
      /\ \A c \in Calls : call[c].pc = "free" /\ ~Open(c)
  BY DEF Init, PC, Open
<1>2. {c \in Calls : Open(c)} = {}
  BY <1>1
<1>3. DepthCounts
  BY <1>2, FS_EmptySet DEF DepthCounts, Init
<1>4. Cardinality(Calls) \in Nat /\ savepoints \in Seq(Savepoints)
  BY CountType, EmptySeq DEF Init
<1>a. /\ pending \in [Parties -> {None} \cup SUBSET Writes]
      /\ parent \in [Calls -> Parties \cup {None}]
  BY DEF Init
<1>b. depth \in 0 .. Cardinality(Calls)
  BY <1>4 DEF Init
<1>5. TypeOK
  BY <1>1, <1>4, <1>a, <1>b DEF Init, TypeOK
<1>6. CallsInv
  BY <1>1, NoneType DEF Init, CallsInv, Collecting
<1> QED
  BY <1>3, <1>5, <1>6 DEF ScopeInv

LEMMA ScopeStep ==
    ASSUME ScopeInv, [Next]_vars
    PROVE  ScopeInv'
<1>1. CASE Begin \/ ContextEnds \/ Commit \/ Rollback
  BY <1>1, RootScope
<1>2. ASSUME NEW c \in Calls, NestedNext(c) PROVE ScopeInv'
  <2>1. ASSUME NEW p \in Parties, Push(c, p) PROVE ScopeInv'
    BY <2>1, PushScope
  <2> QED
    BY <1>2, <2>1, SavepointScope, SavepointFailsScope, ReturnScope, ReleaseScope,
       RollbackToScope, UnstackScope, LostScope, MarkScope, PopScope DEF NestedNext
<1>3. ASSUME NEW c \in Parties, NEW w \in Writes, Work(c, w) PROVE ScopeInv'
  BY <1>3, WorkScope
<1>4. CASE UNCHANGED vars
  BY <1>4 DEF vars, scope, database, history, ScopeInv, TypeOK, DepthCounts, CallsInv, Open
<1> QED
  BY <1>1, <1>2, <1>3, <1>4 DEF Next

THEOREM ScopeInvariant == Spec => []ScopeInv
<1>1. ScopeInv /\ [Next]_vars => ScopeInv'
  BY ScopeStep
<1> QED
  BY <1>1, ScopeInit, PTL DEF Spec

\* Every variable stays in its type, and the depth never exceeds the calls under way,
\* on any number of goroutines.
THEOREM TransactionTypeCorrect == Spec => []TypeOK
<1>1. ScopeInv => TypeOK
  BY DEF ScopeInv
<1> QED
  BY <1>1, ScopeInvariant, PTL

\* push and pop keep the depth equal to the number of nested calls under way,
\* whatever their goroutines do and whichever statements fail.
THEOREM DepthCorrect == Spec => []DepthCounts
<1>1. ScopeInv => DepthCounts
  BY DEF ScopeInv
<1> QED
  BY <1>1, ScopeInvariant, PTL

-----------------------------------------------------------------------------
(* The chain of calls of one goroutine.                                    *)

LEMMA DepthType == TypeOK => depth \in Nat
BY CountType DEF TypeOK

LEMMA Deepest ==
    ASSUME ScopeInv, ChainInv, NEW c \in Calls, Open(c), \A d \in Calls : Open(d) => parent[d] # c
    PROVE  /\ call[c].name = depth
           /\ \A d \in Calls : Open(d) /\ d # c => call[d].name < call[c].name
<1>0. /\ TypeOK /\ CallsInv /\ depth \in Nat
      /\ \A d \in Calls : call[d].name \in Nat
  BY DepthType DEF ScopeInv, TypeOK
<1>1. ~(call[c].name < depth)
  <2> SUFFICES ASSUME call[c].name < depth PROVE FALSE
    OBVIOUS
  <2>1. call[c].name \in 1 .. depth /\ call[c].name + 1 \in 1 .. depth
    BY <1>0 DEF ChainInv
  <2>2. PICK d \in Calls : Open(d) /\ call[d].name = call[c].name + 1
    BY <2>1 DEF ChainInv
  <2>3. Rank(parent[d]) = call[c].name
    BY <1>0, <2>2 DEF ChainInv
  <2>4. parent[d] \in Calls /\ call[parent[d]].name = call[c].name
    BY <2>1, <2>3 DEF Rank
  <2>5. Open(parent[d])
    BY <1>0, <2>2, <2>4 DEF CallsInv, Open
  <2> QED
    BY <2>2, <2>4, <2>5 DEF ChainInv
<1>2. \A d \in Calls : Open(d) => call[d].name \in 1 .. depth
  BY DEF ChainInv
<1>3. \A d \in Calls : Open(d) /\ d # c => call[d].name # call[c].name
  BY DEF ChainInv
<1> QED
  BY <1>0, <1>1, <1>2, <1>3

LEMMA RootAlone ==
    ASSUME ScopeInv, ChainInv, \A d \in Calls : Open(d) => parent[d] # Root
    PROVE  depth = 0 /\ \A d \in Calls : ~Open(d)
<1>0. /\ TypeOK /\ CallsInv /\ depth \in Nat
      /\ \A d \in Calls : call[d].name \in Nat
  BY DepthType DEF ScopeInv, TypeOK
<1>1. depth = 0
  <2> SUFFICES ASSUME depth # 0 PROVE FALSE
    OBVIOUS
  <2>1. 1 \in 1 .. depth
    BY <1>0
  <2>2. PICK d \in Calls : Open(d) /\ call[d].name = 1
    BY <2>1 DEF ChainInv
  <2>3. Rank(parent[d]) = 0
    BY <2>2 DEF ChainInv
  <2>4. parent[d] \in Calls
    BY <1>0, <2>2 DEF CallsInv, Parties
  <2>5. Open(parent[d]) /\ call[parent[d]].name = 0
    BY <1>0, <2>2, <2>3, <2>4 DEF CallsInv, Open, Rank
  <2> QED
    BY <1>0, <2>4, <2>5 DEF ChainInv
<1> QED
  BY <1>0, <1>1 DEF ChainInv

LEMMA ChainKeeps ==
    ASSUME ChainInv, UNCHANGED <<depth, parent>>,
           \A d \in Calls : (Open(d)' <=> Open(d)) /\ call'[d].name = call[d].name
    PROVE  ChainInv'
<1>1. \A d \in Calls : Rank(parent[d])' = Rank(parent[d])
  BY DEF Rank
<1> QED
  BY <1>1 DEF ChainInv

LEMMA ChainMoves ==
    ASSUME ScopeInv, ChainInv, NEW c \in Calls, Open(c), NEW pc \in PC \ {"free", "done"},
           Goto(c, pc), UNCHANGED <<depth, parent>>
    PROVE  ChainInv'
<1>1. /\ call'[c].pc = pc /\ \A d \in Calls : d # c => call'[d] = call[d]
      /\ \A d \in Calls : call'[d].name = call[d].name
  BY GotoType DEF ScopeInv, TypeOK
<1>2. \A d \in Calls : Open(d)' <=> Open(d)
  BY <1>1 DEF Open
<1> QED
  BY <1>1, <1>2, ChainKeeps

LEMMA PushDeepest ==
    ASSUME ScopeInv, ChainInv, ~Concurrent, NEW p \in Parties, Runs(p)
    PROVE  Rank(p) = depth /\ \A d \in Calls : Open(d) /\ d # p => call[d].name < Rank(p)
<1>1. \A d \in Calls : Open(d) => parent[d] # p
  BY DEF Runs
<1>2. CASE p \in Calls
  <2>1. Open(p)
    BY <1>2 DEF Runs, Open
  <2> QED
    BY <1>1, <1>2, <2>1, Deepest DEF Rank
<1>3. CASE p \notin Calls
  <2>1. p = Root
    BY <1>3 DEF Parties
  <2> QED
    BY <1>1, <1>3, <2>1, RootAlone DEF Rank
<1> QED
  BY <1>2, <1>3

LEMMA PushChain ==
    ASSUME ScopeInv, ChainInv, ~Concurrent, NEW c \in Calls, NEW p \in Parties, Push(c, p)
    PROVE  ChainInv'
<1>0. /\ TypeOK /\ CallsInv /\ depth \in Nat
      /\ \A d \in Calls : call[d].name \in Nat
  BY DepthType DEF ScopeInv, TypeOK
<1>1. /\ call[c].pc = "free" /\ depth' = depth + 1
      /\ call' = [call EXCEPT ![c] = [pc |-> "savepoint", name |-> depth + 1]]
      /\ parent' = [parent EXCEPT ![c] = p] /\ Runs(p)
  BY DEF Push
<1>2. /\ call'[c].pc = "savepoint" /\ call'[c].name = depth + 1
      /\ \A d \in Calls : d # c => call'[d] = call[d] /\ parent'[d] = parent[d]
      /\ parent'[c] = p
  BY <1>0, <1>1 DEF TypeOK
<1>3. \A d \in Calls : Open(d)' <=> d = c \/ Open(d)
  BY <1>2 DEF Open
<1>4. Rank(p) = depth /\ p # c /\ ~Open(c)
  BY <1>1, PushDeepest DEF Runs, Open
<1>5. Rank(parent[c])' = depth
  BY <1>2, <1>4 DEF Rank
<1>6. ASSUME NEW d \in Calls, Open(d) PROVE Rank(parent[d])' = Rank(parent[d])
  <2>1. d # c /\ parent[d] # c
    BY <1>0, <1>1, <1>4, <1>6 DEF CallsInv
  <2> QED
    BY <1>2, <2>1 DEF Rank
<1>7. \A d \in Calls : Open(d)' =>
          call'[d].name \in 1 .. depth' /\ Rank(parent[d])' = call'[d].name - 1
  <2>1. ASSUME NEW d \in Calls, Open(d), d # c
        PROVE  call'[d].name \in 1 .. depth' /\ Rank(parent[d])' = call'[d].name - 1
    BY <1>0, <1>1, <1>2, <1>6, <2>1 DEF ChainInv
  <2>2. call'[c].name \in 1 .. depth' /\ Rank(parent[c])' = call'[c].name - 1
    BY <1>0, <1>1, <1>2, <1>5
  <2> QED
    BY <1>3, <2>1, <2>2
<1>8. \A a, b \in Calls : Open(a)' /\ Open(b)' /\ call'[a].name = call'[b].name => a = b
  <2>1. \A d \in Calls : Open(d) => call[d].name \in 1 .. depth
    BY DEF ChainInv
  <2>2. \A d \in Calls : Open(d) /\ d # c => call'[d].name # call'[c].name
    BY <1>0, <1>2, <2>1
  <2> QED
    BY <1>2, <1>3, <2>2 DEF ChainInv
<1>9. \A n \in 1 .. depth' : \E d \in Calls : Open(d)' /\ call'[d].name = n
  <2>1. \A n \in 1 .. depth' : n \in 1 .. depth \/ n = depth + 1
    BY <1>0, <1>1
  <2> QED
    BY <1>2, <1>3, <1>4, <2>1 DEF ChainInv
<1> QED
  BY <1>7, <1>8, <1>9 DEF ChainInv

LEMMA PopChain ==
    ASSUME ScopeInv, ChainInv, NEW c \in Calls, Pop(c)
    PROVE  ChainInv'
<1>0. /\ TypeOK /\ CallsInv /\ depth \in Nat
      /\ \A d \in Calls : call[d].name \in Nat
  BY DepthType DEF ScopeInv, TypeOK
<1>1. call[c].pc = "pop" /\ Goto(c, "done") /\ parent' = parent /\ depth' = depth - 1
  BY PopScope DEF Pop, history
<1>2. /\ call'[c].pc = "done"
      /\ \A d \in Calls : d # c => call'[d] = call[d]
      /\ \A d \in Calls : call'[d].name = call[d].name
  BY <1>0, <1>1, GotoType DEF TypeOK, PC
<1>3. /\ \A d \in Calls : Open(d)' <=> d # c /\ Open(d)
      /\ Open(c)
  BY <1>1, <1>2 DEF Open
<1>4. /\ call[c].name = depth
      /\ \A d \in Calls : Open(d) /\ d # c => call[d].name < call[c].name
  <2>1. \A d \in Calls : Open(d) => parent[d] # c
    BY <1>0, <1>1, Childless
  <2> QED
    BY <1>3, <2>1, Deepest
<1>5. \A d \in Calls : Rank(parent[d])' = Rank(parent[d])
  BY <1>1, <1>2 DEF Rank
<1>6. \A d \in Calls : Open(d)' =>
          call'[d].name \in 1 .. depth' /\ Rank(parent[d])' = call'[d].name - 1
  BY <1>0, <1>1, <1>2, <1>3, <1>4, <1>5 DEF ChainInv
<1>7. \A n \in 1 .. depth' : \E d \in Calls : Open(d)' /\ call'[d].name = n
  <2> SUFFICES ASSUME NEW n \in 1 .. depth' PROVE \E d \in Calls : Open(d)' /\ call'[d].name = n
    OBVIOUS
  <2>1. n \in 1 .. depth /\ n # depth
    BY <1>0, <1>1
  <2>2. PICK d \in Calls : Open(d) /\ call[d].name = n
    BY <2>1 DEF ChainInv
  <2> QED
    BY <1>2, <1>3, <1>4, <2>1, <2>2
<1> QED
  BY <1>2, <1>3, <1>6, <1>7 DEF ChainInv

-----------------------------------------------------------------------------
(* The savepoints of one goroutine's calls.                                *)

LEMMA DoomedStays ==
    ASSUME ScopeInv, Next, Doomed
    PROVE  Doomed'
<1>0. TypeOK
  BY DEF ScopeInv
<1>1. CASE UNCHANGED <<failed, call>> /\ dead' \in {dead, TRUE}
  BY <1>1 DEF Doomed
<1>2. ASSUME NEW c \in Calls, NestedNext(c) PROVE Doomed'
  <2>1. CASE MarkFailed(c)
    BY <2>1 DEF MarkFailed, Doomed
  <2>2. ASSUME NEW pc \in PC, Goto(c, pc), call[c].pc # "mark", UNCHANGED <<dead, failed>>
        PROVE  Doomed'
    <3>1. \A d \in Calls : d # c => call'[d] = call[d]
      BY <1>0, <2>2, GotoType DEF TypeOK
    <3> QED
      BY <2>2, <3>1 DEF Doomed
  <2>3. ASSUME NEW p \in Parties, Push(c, p) PROVE Doomed'
    <3>1. call[c].pc = "free" /\ \A d \in Calls : d # c => call'[d] = call[d]
      BY <1>0, <2>3 DEF Push, TypeOK
    <3>2. UNCHANGED <<dead, failed>>
      BY <2>3 DEF Push, database
    <3> QED
      BY <3>1, <3>2 DEF Doomed
  <2>4. CASE Savepoint(c) \/ SavepointFails(c)
    BY <2>2, <2>4 DEF Savepoint, SavepointFails, scope, PC
  <2>5. CASE Return(c)
    BY <2>2, <2>5 DEF Return, scope, database, PC
  <2>6. CASE Release(c) \/ RollbackTo(c) \/ Unstack(c) \/ SavepointLost(c)
    BY <2>2, <2>6 DEF Release, RollbackTo, Unstack, SavepointLost, scope, PC
  <2>7. CASE Pop(c)
    BY <2>2, <2>7 DEF Pop, database, PC
  <2> QED
    BY <1>2, <2>1, <2>3, <2>4, <2>5, <2>6, <2>7 DEF NestedNext
<1>3. CASE Begin \/ ContextEnds \/ Commit \/ Rollback
  BY <1>1, <1>3 DEF Begin, ContextEnds, Commit, Rollback, scope
<1>4. ASSUME NEW c \in Parties, NEW w \in Writes, Work(c, w) PROVE Doomed'
  BY <1>1, <1>4 DEF Work, scope
<1> QED
  BY <1>2, <1>3, <1>4 DEF Next

(* The savepoints of calls that a step does not concern. *)
LEMMA SavedKeeps ==
    ASSUME TypeOK, SavedInv, savepoints' \in Seq(Savepoints),
           \A d \in Calls : Kept(d)' =>
              /\ Kept(d) /\ call'[d].name = call[d].name
              /\ Outside(call[d].name)' = Outside(call[d].name)
              /\ \A i : IsLatest(savepoints, call[d].name, i) =>
                    IsLatest(savepoints', call[d].name, i) /\ savepoints'[i] = savepoints[i]
    PROVE  SavedInv'
<1>1. ASSUME NEW d \in Calls, Kept(d)'
      PROVE  \E i \in 1 .. Len(savepoints') :
                /\ i \in 1 .. Len(savepoints)
                /\ IsLatest(savepoints, call[d].name, i)
                /\ IsLatest(savepoints', call'[d].name, i)
                /\ savepoints'[i].writes = Outside(call[d].name)'
  <2>1. PICK i \in 1 .. Len(savepoints) :
            IsLatest(savepoints, call[d].name, i) /\ savepoints[i].writes = Outside(call[d].name)
    BY <1>1 DEF SavedInv
  <2>2. /\ IsLatest(savepoints', call'[d].name, i) /\ savepoints'[i] = savepoints[i]
        /\ Outside(call[d].name)' = Outside(call[d].name)
    BY <1>1, <2>1
  <2>3. i \in 1 .. Len(savepoints')
    BY <2>2 DEF IsLatest
  <2> QED
    BY <2>1, <2>2, <2>3
<1>2. ASSUME NEW c \in Calls, NEW d \in Calls, Kept(c)', Kept(d)', call'[c].name < call'[d].name,
             NEW i \in 1 .. Len(savepoints'), NEW j \in 1 .. Len(savepoints'),
             IsLatest(savepoints', call'[c].name, i), IsLatest(savepoints', call'[d].name, j)
      PROVE  i < j
  <2>1. PICK x \in 1 .. Len(savepoints) :
            IsLatest(savepoints, call[c].name, x) /\ IsLatest(savepoints', call'[c].name, x)
    BY <1>1, <1>2
  <2>2. PICK y \in 1 .. Len(savepoints) :
            IsLatest(savepoints, call[d].name, y) /\ IsLatest(savepoints', call'[d].name, y)
    BY <1>1, <1>2
  <2>3. x = i /\ y = j
    BY <1>2, <2>1, <2>2, LatestUnique
  <2>4. Kept(c) /\ Kept(d) /\ call[c].name < call[d].name
    BY <1>2
  <2>5. x < y
    BY <2>1, <2>2, <2>4 DEF SavedInv
  <2> QED
    BY <2>3, <2>5
<1> QED
  BY <1>1, <1>2 DEF SavedInv

LEMMA SameWork ==
    ASSUME UNCHANGED pending, \A p \in Calls : pending[p] # None => call'[p].name = call[p].name
    PROVE  /\ Collected' = Collected
           /\ \A d \in Calls : call'[d].name = call[d].name =>
                 Outside(call[d].name)' = Outside(call[d].name)
<1>1. \A p \in Parties : pending[p] # None => Rank(p)' = Rank(p)
  BY DEF Rank
<1> QED
  BY <1>1 DEF Collected, Outside

LEMMA KeptOpen == \A d \in Calls : Kept(d) => Open(d)
BY DEF Kept, Open, Collecting

(* The deepest call has all the work of the others outside it. *)
LEMMA AllOutside ==
    ASSUME ScopeInv, ChainInv, NEW c \in Calls, Open(c), \A d \in Calls : Open(d) => parent[d] # c
    PROVE  \A p \in Parties : p # c /\ pending[p] # None => Rank(p) < call[c].name
<1>1. /\ \A d \in Calls : Open(d) /\ d # c => call[d].name < call[c].name
      /\ call[c].name \in 1 .. depth
  BY Deepest DEF ChainInv
<1>2. \A d \in Calls : pending[d] # None => Open(d)
  BY DEF ScopeInv, CallsInv, Collecting, Open
<1>3. ASSUME NEW p \in Parties, p # c, pending[p] # None PROVE Rank(p) < call[c].name
  <2>1. CASE p \in Calls
    BY <1>1, <1>2, <1>3, <2>1 DEF Rank
  <2>2. CASE p \notin Calls
    BY <1>1, <2>2 DEF Rank
  <2> QED
    BY <2>1, <2>2
<1> QED
  BY <1>3

(* Steps that leave the work and the savepoints alone. *)
LEMMA StackStays ==
    ASSUME ScopeInv, StackInv, NEW c \in Calls, UNCHANGED <<working, savepoints, pending>>,
           \A d \in Calls : d # c => call'[d] = call[d],
           Kept(c)' => Kept(c) /\ call'[c].name = call[c].name,
           pending[c] # None => call'[c].name = call[c].name
    PROVE  StackInv'
<1>1. \A p \in Calls : pending[p] # None => call'[p].name = call[p].name
  OBVIOUS
<1>2. /\ Collected' = Collected
      /\ \A d \in Calls : call'[d].name = call[d].name =>
            Outside(call[d].name)' = Outside(call[d].name)
  BY <1>1, SameWork
<1>3. \A d \in Calls : Kept(d)' => Kept(d) /\ call'[d].name = call[d].name
  BY DEF Kept
<1>4. SavedInv'
  BY <1>2, <1>3, SavedKeeps DEF ScopeInv, TypeOK, StackInv
<1> QED
  BY <1>2, <1>4 DEF StackInv

LEMMA PushStack ==
    ASSUME ScopeInv, StackInv, NEW c \in Calls, NEW p \in Parties, Push(c, p)
    PROVE  StackInv'
<1>0. TypeOK /\ CallsInv
  BY DEF ScopeInv
<1>1. /\ call[c].pc = "free" /\ UNCHANGED <<working, savepoints, pending>>
      /\ call' = [call EXCEPT ![c] = [pc |-> "savepoint", name |-> depth + 1]]
  BY DEF Push, database
<1>2. call'[c].pc = "savepoint" /\ \A d \in Calls : d # c => call'[d] = call[d]
  BY <1>0, <1>1 DEF TypeOK
<1>3. pending[c] = None /\ ~Kept(c)'
  BY <1>0, <1>1, <1>2 DEF CallsInv, Collecting, Kept
<1> QED
  BY <1>1, <1>2, <1>3, StackStays

LEMMA MovesStack ==
    ASSUME ScopeInv, StackInv, NEW c \in Calls, Return(c) \/ Pop(c)
    PROVE  StackInv'
<1>0. TypeOK
  BY DEF ScopeInv
<1>1. PICK pc \in {"release", "rollback", "done"} : Goto(c, pc)
  BY DEF Return, Pop
<1>2. /\ UNCHANGED <<working, savepoints, pending>>
      /\ call[c].pc = "body" \/ pc = "done"
  <2>1. CASE Return(c)
    BY <2>1 DEF Return, database, history
  <2>2. CASE Pop(c)
    <3>1. Goto(c, "done")
      BY <2>2 DEF Pop
    <3>2. call'[c].pc = "done" /\ call'[c].pc = pc
      BY <1>0, <1>1, <3>1, GotoType DEF TypeOK, PC
    <3> QED
      BY <2>2, <3>2 DEF Pop, database, history
  <2> QED
    BY <2>1, <2>2
<1>3. /\ call'[c].pc = pc /\ call'[c].name = call[c].name
      /\ \A d \in Calls : d # c => call'[d] = call[d]
  BY <1>0, <1>1, GotoType DEF TypeOK, PC
<1>4. Kept(c)' => Kept(c)
  BY <1>2, <1>3 DEF Kept, Collecting
<1> QED
  BY <1>2, <1>3, <1>4, StackStays

LEMMA WorkStack ==
    ASSUME ScopeInv, ChainInv, StackInv, ~Concurrent,
           NEW c \in Parties, NEW w \in Writes, Work(c, w)
    PROVE  StackInv'
<1>0. TypeOK /\ savepoints' \in Seq(Savepoints)
  BY DEF ScopeInv, Work, TypeOK
<1>1. /\ working' = working \cup {w} /\ Runs(c)
      /\ UNCHANGED <<savepoints, call>>
  BY DEF Work
<1>2. /\ pending[c] # None /\ pending'[c] # None /\ pending'[c] = pending[c] \cup {w}
      /\ \A p \in Parties : p # c => pending'[p] = pending[p]
  BY WorkScope, NoneType
<1>3. Rank(c) = depth
  BY <1>1, PushDeepest
<1>4. ASSUME NEW d \in Calls, Kept(d) PROVE Outside(call[d].name)' = Outside(call[d].name)
  <2>1. call[d].name \in 1 .. depth /\ depth \in Nat
    BY <1>0, <1>4, KeptOpen, DepthType DEF ChainInv
  <2>2. ~(Rank(c) < call[d].name)
    BY <1>3, <2>1
  <2>3. \A p \in Parties : Rank(p)' = Rank(p) /\ call'[d] = call[d]
    BY <1>1 DEF Rank
  <2> QED
    BY <1>2, <2>2, <2>3 DEF Outside
<1>5. SavedInv'
  <2>1. \A d \in Calls : (Kept(d)' <=> Kept(d)) /\ call'[d] = call[d]
    BY <1>1 DEF Kept
  <2> QED
    BY <1>0, <1>1, <1>4, <2>1, SavedKeeps DEF StackInv
<1>6. Collected' = Collected \cup {w}
  BY <1>2 DEF Collected
<1> QED
  BY <1>1, <1>5, <1>6 DEF StackInv

(* A savepoint under a name no other open call has leaves theirs alone. *)
LEMMA StackedOthers ==
    ASSUME ScopeInv, ChainInv, NEW c \in Calls, Open(c)
    PROVE  \A d \in Calls : Open(d) /\ d # c =>
              \A i : IsLatest(savepoints, call[d].name, i) =>
                 /\ IsLatest(Stacked(call[c].name), call[d].name, i)
                 /\ Stacked(call[c].name)[i] = savepoints[i]
<1> DEFINE e == [name |-> call[c].name, writes |-> working]
<1>1. e \in Savepoints /\ e.name = call[c].name /\ savepoints \in Seq(Savepoints)
  BY StackedType DEF ScopeInv, TypeOK
<1>2. \A d \in Calls : Open(d) /\ d # c => call[d].name # e.name
  BY <1>1 DEF ChainInv
<1> HIDE DEF e
<1>3. \A n, i : n # e.name /\ IsLatest(savepoints, n, i) =>
          IsLatest(Append(savepoints, e), n, i) /\ Append(savepoints, e)[i] = savepoints[i]
  BY <1>1, LatestAppend
<1> QED
  BY <1>2, <1>3 DEF Stacked, e

LEMMA SavepointStack ==
    ASSUME ScopeInv, ChainInv, StackInv, NEW c \in Calls, Savepoint(c)
    PROVE  StackInv'
<1>0. TypeOK /\ CallsInv /\ savepoints \in Seq(Savepoints) /\ Len(savepoints) \in Nat
  BY LenProperties DEF ScopeInv, TypeOK
<1>1. /\ call[c].pc = "savepoint" /\ savepoints' = Stacked(call[c].name) /\ Goto(c, "body")
      /\ pending' = [pending EXCEPT ![c] = {}] /\ UNCHANGED working
  BY DEF Savepoint
<1>2. /\ call'[c].pc = "body"
      /\ \A d \in Calls : d # c => call'[d] = call[d]
      /\ \A d \in Calls : call'[d].name = call[d].name
  BY <1>0, <1>1, GotoType DEF TypeOK, PC
<1>3. /\ pending'[c] = {} /\ pending[c] = None /\ {} # None
      /\ \A p \in Parties : p # c => pending'[p] = pending[p]
  BY <1>0, <1>1, NoneType DEF TypeOK, CallsInv, Collecting
<1>4. \A p : Rank(p)' = Rank(p)
  BY <1>2 DEF Rank
<1>5. Open(c) /\ \A d \in Calls : Open(d) => parent[d] # c
  BY <1>0, <1>1, Childless DEF Open
<1>6. Collected' = Collected
  BY <1>3 DEF Collected
<1>7. \A d \in Calls : Outside(call[d].name)' = Outside(call[d].name)
  BY <1>2, <1>3, <1>4 DEF Outside
<1>8. Outside(call[c].name) = Collected
  BY <1>3, <1>5, AllOutside DEF Outside, Collected
<1>9. /\ Stacked(call[c].name) \in Seq(Savepoints)
      /\ Len(Stacked(call[c].name)) = Len(savepoints) + 1
      /\ IsLatest(Stacked(call[c].name), call[c].name, Len(savepoints) + 1)
      /\ Stacked(call[c].name)[Len(savepoints) + 1].writes = working
  <2> DEFINE e == [name |-> call[c].name, writes |-> working]
  <2>1. e \in Savepoints /\ e.name = call[c].name /\ e.writes = working
    BY <1>0, StackedType
  <2> HIDE DEF e
  <2> QED
    BY <1>0, <2>1, LatestAppend DEF Stacked, e
<1>10. \A d \in Calls : Kept(d)' => d = c \/ (Kept(d) /\ Open(d))
  BY <1>2, KeptOpen DEF Kept
<1>11. \A d \in Calls : Kept(d) /\ Open(d) /\ d # c =>
          /\ call[d].name < call[c].name
          /\ \A i : IsLatest(savepoints, call[d].name, i) =>
                 IsLatest(savepoints', call[d].name, i) /\ savepoints'[i] = savepoints[i]
  BY <1>1, <1>5, Deepest, StackedOthers
<1>12. ASSUME NEW d \in Calls, Kept(d)'
       PROVE  \E i \in 1 .. Len(savepoints') :
                 /\ IsLatest(savepoints', call'[d].name, i)
                 /\ savepoints'[i].writes = Outside(call[d].name)'
                 /\ d # c => IsLatest(savepoints, call[d].name, i)
                 /\ d = c => i = Len(savepoints) + 1
  <2>1. CASE d = c
    BY <1>0, <1>1, <1>2, <1>7, <1>8, <1>9, <2>1 DEF StackInv
  <2>2. CASE d # c
    <3>1. PICK i \in 1 .. Len(savepoints) :
             IsLatest(savepoints, call[d].name, i) /\ savepoints[i].writes = Outside(call[d].name)
      BY <1>10, <1>12, <2>2 DEF StackInv, SavedInv
    <3>2. IsLatest(savepoints', call'[d].name, i) /\ savepoints'[i] = savepoints[i]
      BY <1>2, <1>10, <1>11, <1>12, <2>2, <3>1
    <3>3. i \in 1 .. Len(savepoints')
      BY <3>2 DEF IsLatest
    <3> QED
      BY <1>7, <2>2, <3>1, <3>2, <3>3
  <2> QED
    BY <2>1, <2>2
<1>13. ASSUME NEW a \in Calls, NEW d \in Calls, Kept(a)', Kept(d)', call'[a].name < call'[d].name,
              NEW i \in 1 .. Len(savepoints'), NEW j \in 1 .. Len(savepoints'),
              IsLatest(savepoints', call'[a].name, i), IsLatest(savepoints', call'[d].name, j)
       PROVE  i < j
  <2>1. a # c
    <3> SUFFICES ASSUME a = c PROVE FALSE
      OBVIOUS
    <3>1. d # c /\ Kept(d) /\ Open(d) /\ call[c].name < call[d].name
      BY <1>0, <1>2, <1>10, <1>13 DEF TypeOK
    <3>2. call[d].name < call[c].name
      BY <1>11, <3>1
    <3> QED
      BY <1>0, <3>1, <3>2 DEF TypeOK
  <2>2. PICK x \in 1 .. Len(savepoints') :
            IsLatest(savepoints', call'[a].name, x) /\ IsLatest(savepoints, call[a].name, x)
    BY <1>12, <1>13, <2>1
  <2>3. x = i /\ i \in 1 .. Len(savepoints) /\ IsLatest(savepoints, call[a].name, i)
    BY <1>1, <1>9, <1>13, <2>2, LatestUnique DEF IsLatest
  <2>4. PICK y \in 1 .. Len(savepoints') :
            /\ IsLatest(savepoints', call'[d].name, y)
            /\ d # c => IsLatest(savepoints, call[d].name, y)
            /\ d = c => y = Len(savepoints) + 1
    BY <1>12, <1>13
  <2>5. y = j
    BY <1>1, <1>9, <1>13, <2>4, LatestUnique
  <2>6. CASE d = c
    BY <1>0, <2>3, <2>4, <2>5, <2>6
  <2>7. CASE d # c
    <3>1. /\ Kept(a) /\ Kept(d) /\ call[a].name < call[d].name
          /\ IsLatest(savepoints, call[d].name, j)
      BY <1>2, <1>10, <1>13, <2>1, <2>4, <2>5, <2>7
    <3>2. j \in 1 .. Len(savepoints)
      BY <3>1 DEF IsLatest
    <3> QED
      BY <2>3, <3>1, <3>2 DEF StackInv, SavedInv
  <2> QED
    BY <2>6, <2>7
<1>14. SavedInv'
  BY <1>12, <1>13 DEF SavedInv
<1> QED
  BY <1>1, <1>6, <1>14 DEF StackInv

LEMMA SavepointFailsStack ==
    ASSUME ScopeInv, ChainInv, StackInv, NEW c \in Calls, SavepointFails(c)
    PROVE  StackInv'
<1>0. TypeOK /\ CallsInv
  BY DEF ScopeInv
<1>1. /\ call[c].pc = "savepoint" /\ savepoints' \in {savepoints, Stacked(call[c].name)}
      /\ Goto(c, "pop") /\ UNCHANGED <<working, pending>>
  BY DEF SavepointFails, history
<1>2. /\ call'[c].pc = "pop"
      /\ \A d \in Calls : d # c => call'[d] = call[d]
      /\ \A d \in Calls : call'[d].name = call[d].name
  BY <1>0, <1>1, GotoType DEF TypeOK, PC
<1>3. /\ Collected' = Collected
      /\ \A d \in Calls : Outside(call[d].name)' = Outside(call[d].name)
  BY <1>1, <1>2, SameWork
<1>4. \A d \in Calls : Kept(d)' => d # c /\ Kept(d) /\ Open(d)
  BY <1>2, KeptOpen DEF Kept, Collecting
<1>5. Open(c) /\ savepoints' \in Seq(Savepoints)
  BY <1>0, <1>1, StackedType DEF Open, TypeOK
<1>6. \A d \in Calls : Kept(d)' =>
         \A i : IsLatest(savepoints, call[d].name, i) =>
            IsLatest(savepoints', call[d].name, i) /\ savepoints'[i] = savepoints[i]
  BY <1>1, <1>4, <1>5, StackedOthers
<1>7. SavedInv'
  BY <1>0, <1>2, <1>3, <1>4, <1>5, <1>6, SavedKeeps DEF StackInv
<1> QED
  BY <1>1, <1>3, <1>7 DEF StackInv

(* The statement of the deepest call finds that call's own savepoint, and  *)
(* what it cuts off the stack is nobody else's.                            *)
LEMMA OwnSavepoint ==
    ASSUME ScopeInv, ChainInv, StackInv, NEW c \in Calls, Kept(c), call[c].pc # "body"
    PROVE  LET n == call[c].name IN
           /\ Named(n) # {} /\ IsLatest(savepoints, n, Latest(n))
           /\ savepoints[Latest(n)].writes = Outside(n)
           /\ Released(n) \in Seq(Savepoints) /\ RolledBack(n) \in Seq(Savepoints)
           /\ IsLatest(RolledBack(n), n, Latest(n))
           /\ RolledBack(n)[Latest(n)] = savepoints[Latest(n)]
           /\ \A d \in Calls : Kept(d) /\ d # c =>
                 \A i : IsLatest(savepoints, call[d].name, i) =>
                    /\ IsLatest(Released(n), call[d].name, i) /\ Released(n)[i] = savepoints[i]
                    /\ IsLatest(RolledBack(n), call[d].name, i)
                    /\ RolledBack(n)[i] = savepoints[i]
<1> DEFINE n == call[c].name
           k == Latest(n)
<1>0. TypeOK /\ CallsInv /\ savepoints \in Seq(Savepoints) /\ Len(savepoints) \in Nat
  BY LenProperties DEF ScopeInv, TypeOK
<1>1. PICK x \in 1 .. Len(savepoints) :
         IsLatest(savepoints, n, x) /\ savepoints[x].writes = Outside(n)
  BY DEF StackInv, SavedInv
<1>2. Named(n) # {} /\ k = x
  BY <1>0, <1>1, LatestIs
<1>3. /\ k \in 1 .. Len(savepoints) /\ k - 1 \in 0 .. Len(savepoints) /\ k \in 0 .. Len(savepoints)
      /\ Released(n) \in Seq(Savepoints) /\ RolledBack(n) \in Seq(Savepoints)
  BY <1>0, <1>2, CutType
<1>4. ASSUME NEW d \in Calls, Kept(d), d # c, NEW i, IsLatest(savepoints, call[d].name, i)
      PROVE  i \in 1 .. Len(savepoints) /\ i < k
  <2>1. call[d].name < n
    BY <1>0, <1>4, KeptOpen, Childless, Deepest
  <2>2. i \in 1 .. Len(savepoints)
    BY <1>4 DEF IsLatest
  <2> QED
    BY <1>1, <1>2, <1>4, <2>1, <2>2 DEF StackInv, SavedInv
<1>5. ASSUME NEW m, NEW i, IsLatest(savepoints, m, i), i <= k
      PROVE  IsLatest(RolledBack(n), m, i) /\ RolledBack(n)[i] = savepoints[i]
  BY <1>0, <1>3, <1>5, LatestCut DEF RolledBack
<1>6. ASSUME NEW m, NEW i, IsLatest(savepoints, m, i), i <= k - 1
      PROVE  IsLatest(Released(n), m, i) /\ Released(n)[i] = savepoints[i]
  BY <1>0, <1>3, <1>6, LatestCut DEF Released
<1>7. IsLatest(savepoints, n, k) /\ savepoints[k].writes = Outside(n)
  BY <1>1, <1>2
<1>8. IsLatest(RolledBack(n), n, k) /\ RolledBack(n)[k] = savepoints[k]
  BY <1>3, <1>5, <1>7
<1> HIDE DEF k
<1>9. ASSUME NEW d \in Calls, Kept(d), d # c, NEW i, IsLatest(savepoints, call[d].name, i)
      PROVE  /\ IsLatest(Released(n), call[d].name, i) /\ Released(n)[i] = savepoints[i]
             /\ IsLatest(RolledBack(n), call[d].name, i)
             /\ RolledBack(n)[i] = savepoints[i]
  <2>1. i <= k /\ i <= k - 1
    <3>1. i \in 1 .. Len(savepoints) /\ i < k
      BY <1>4, <1>9
    <3> QED
      BY <1>0, <1>3, <3>1
  <2> QED
    BY <1>5, <1>6, <1>9, <2>1
<1> QED
  BY <1>2, <1>3, <1>7, <1>8, <1>9 DEF k

LEMMA ReleaseStack ==
    ASSUME ScopeInv, ChainInv, StackInv, NEW c \in Calls, Release(c)
    PROVE  StackInv'
<1>0. TypeOK /\ CallsInv
  BY DEF ScopeInv
<1>1. /\ call[c].pc = "release" /\ savepoints' = Released(call[c].name) /\ Goto(c, "pop")
      /\ pending' = [pending EXCEPT ![c] = None, ![parent[c]] = @ \cup pending[c]]
      /\ UNCHANGED working
  BY DEF Release
<1>2. /\ call'[c].pc = "pop"
      /\ \A d \in Calls : d # c => call'[d] = call[d]
      /\ \A d \in Calls : call'[d].name = call[d].name
  BY <1>0, <1>1, GotoType DEF TypeOK, PC
<1>3. /\ pending[c] \in SUBSET Writes /\ pending[c] # None
      /\ parent[c] \in Parties /\ parent[c] # c
      /\ pending[parent[c]] \in SUBSET Writes /\ pending[parent[c]] # None
  BY <1>1, PendingType DEF Collecting
<1>4. /\ pending'[c] = None
      /\ pending'[parent[c]] = pending[parent[c]] \cup pending[c] /\ pending'[parent[c]] # None
      /\ \A p \in Parties : p # c /\ p # parent[c] => pending'[p] = pending[p]
  BY <1>0, <1>1, <1>3, NoneType DEF TypeOK
<1>5. \A p : Rank(p)' = Rank(p)
  BY <1>2 DEF Rank
<1>6. Kept(c) /\ Open(c) /\ \A d \in Calls : Open(d) => parent[d] # c
  BY <1>0, <1>1, Childless DEF Open, Kept, Collecting
<1>7. Collected' = Collected
  BY <1>3, <1>4, NoneType DEF Collected
<1>8. \A d \in Calls : Kept(d)' => d # c /\ Kept(d) /\ Open(d)
  BY <1>2, KeptOpen DEF Kept, Collecting
<1>9. ASSUME NEW d \in Calls, Kept(d), d # c, Open(d)
      PROVE  Outside(call[d].name)' = Outside(call[d].name)
  <2>1. call[d].name < call[c].name /\ Rank(parent[c]) = call[c].name - 1
    BY <1>6, <1>9, Deepest DEF ChainInv
  <2>2. ~(Rank(parent[c]) < call[d].name) /\ ~(Rank(c) < call[d].name)
    BY <1>0, <2>1 DEF TypeOK, Rank
  <2> QED
    BY <1>2, <1>4, <1>5, <2>2 DEF Outside
<1>10. /\ savepoints' \in Seq(Savepoints)
       /\ \A d \in Calls : Kept(d) /\ d # c =>
             \A i : IsLatest(savepoints, call[d].name, i) =>
                IsLatest(savepoints', call[d].name, i) /\ savepoints'[i] = savepoints[i]
  BY <1>1, <1>6, OwnSavepoint
<1>11. SavedInv'
  BY <1>0, <1>2, <1>8, <1>9, <1>10, SavedKeeps DEF StackInv
<1> QED
  BY <1>1, <1>7, <1>11 DEF StackInv

LEMMA RollbackToStack ==
    ASSUME ScopeInv, ChainInv, StackInv, NEW c \in Calls, RollbackTo(c)
    PROVE  StackInv'
<1>0. TypeOK /\ CallsInv
  BY DEF ScopeInv
<1>1. /\ call[c].pc = "rollback" /\ savepoints' = RolledBack(call[c].name)
      /\ working' = savepoints[Latest(call[c].name)].writes /\ Goto(c, "unstack")
      /\ pending' = [pending EXCEPT ![c] = None]
  BY DEF RollbackTo
<1>2. /\ call'[c].pc = "unstack"
      /\ \A d \in Calls : d # c => call'[d] = call[d]
      /\ \A d \in Calls : call'[d].name = call[d].name
  BY <1>0, <1>1, GotoType DEF TypeOK, PC
<1>3. pending'[c] = None /\ \A p \in Parties : p # c => pending'[p] = pending[p]
  BY <1>0, <1>1, NoneType DEF TypeOK
<1>4. \A p : Rank(p)' = Rank(p)
  BY <1>2 DEF Rank
<1>5. Kept(c) /\ Open(c) /\ \A d \in Calls : Open(d) => parent[d] # c
  BY <1>0, <1>1, Childless DEF Open, Kept, Collecting
<1>6. \A p \in Parties : p # c /\ pending[p] # None => Rank(p) < call[c].name
  BY <1>5, AllOutside
<1>7. \A d \in Calls : Open(d) => call[d].name <= call[c].name
  BY <1>0, <1>5, Deepest DEF TypeOK
<1>8. ~(Rank(c) < call[c].name) /\ \A d \in Calls : Open(d) => ~(Rank(c) < call[d].name)
  BY <1>0, <1>7 DEF Rank, TypeOK
<1>9. \A d \in Calls : Open(d) => Outside(call[d].name)' = Outside(call[d].name)
  BY <1>2, <1>3, <1>4, <1>8 DEF Outside
<1>10. Collected' = Outside(call[c].name)
  BY <1>3, <1>6, <1>8 DEF Collected, Outside
<1>11. /\ savepoints' \in Seq(Savepoints) /\ working' = Outside(call[c].name)
       /\ IsLatest(savepoints, call[c].name, Latest(call[c].name))
       /\ IsLatest(savepoints', call[c].name, Latest(call[c].name))
       /\ savepoints'[Latest(call[c].name)] = savepoints[Latest(call[c].name)]
       /\ \A d \in Calls : Kept(d) /\ d # c =>
             \A i : IsLatest(savepoints, call[d].name, i) =>
                IsLatest(savepoints', call[d].name, i) /\ savepoints'[i] = savepoints[i]
  BY <1>1, <1>5, OwnSavepoint
<1>12. \A i : IsLatest(savepoints, call[c].name, i) =>
                IsLatest(savepoints', call[c].name, i) /\ savepoints'[i] = savepoints[i]
  BY <1>0, <1>11, LatestUnique DEF TypeOK
<1>13. \A d \in Calls : Kept(d)' => Kept(d) /\ Open(d)
  BY <1>2, <1>5, KeptOpen DEF Kept
<1>14. SavedInv'
  BY <1>0, <1>2, <1>9, <1>11, <1>12, <1>13, SavedKeeps DEF StackInv
<1> QED
  BY <1>10, <1>11, <1>14 DEF StackInv

LEMMA UnstackStack ==
    ASSUME ScopeInv, ChainInv, StackInv, NEW c \in Calls, Unstack(c)
    PROVE  StackInv'
<1>0. TypeOK /\ CallsInv
  BY DEF ScopeInv
<1>1. /\ call[c].pc = "unstack" /\ savepoints' = Released(call[c].name) /\ Goto(c, "pop")
      /\ UNCHANGED <<working, pending>>
  BY DEF Unstack, history
<1>2. /\ call'[c].pc = "pop"
      /\ \A d \in Calls : d # c => call'[d] = call[d]
      /\ \A d \in Calls : call'[d].name = call[d].name
  BY <1>0, <1>1, GotoType DEF TypeOK, PC
<1>3. /\ Collected' = Collected
      /\ \A d \in Calls : Outside(call[d].name)' = Outside(call[d].name)
  BY <1>1, <1>2, SameWork
<1>4. \A d \in Calls : Kept(d)' => d # c /\ Kept(d)
  BY <1>2 DEF Kept, Collecting
<1>5. Kept(c)
  BY <1>1 DEF Kept
<1>6. /\ savepoints' \in Seq(Savepoints)
      /\ \A d \in Calls : Kept(d) /\ d # c =>
            \A i : IsLatest(savepoints, call[d].name, i) =>
               IsLatest(savepoints', call[d].name, i) /\ savepoints'[i] = savepoints[i]
  BY <1>1, <1>5, OwnSavepoint
<1>7. SavedInv'
  BY <1>0, <1>2, <1>3, <1>4, <1>6, SavedKeeps DEF StackInv
<1> QED
  BY <1>1, <1>3, <1>7 DEF StackInv

LEMMA SequentialInit == Init => SequentialInv
<1> SUFFICES ASSUME Init PROVE SequentialInv
  OBVIOUS
<1>1. depth = 0 /\ tx = "none" /\ \A c \in Calls : ~Open(c)
  BY DEF Init, Open
<1> QED
  BY <1>1 DEF SequentialInv, ChainInv

LEMMA NestedChain ==
    ASSUME ScopeInv, ChainInv, ~Concurrent, NEW c \in Calls, NestedNext(c)
    PROVE  ChainInv'
<1>1. ASSUME NEW p \in Parties, Push(c, p) PROVE ChainInv'
  BY <1>1, PushChain
<1>2. ASSUME NEW pc \in PC \ {"free", "done"}, call[c].pc \notin {"free", "done"}, Goto(c, pc),
             UNCHANGED <<depth, parent>>
      PROVE  ChainInv'
  BY <1>2, ChainMoves DEF Open
<1>3. CASE Savepoint(c) \/ SavepointFails(c) \/ Release(c) \/ RollbackTo(c)
  BY <1>2, <1>3 DEF Savepoint, SavepointFails, Release, RollbackTo, scope, history, PC
<1>4. CASE Return(c)
  BY <1>2, <1>4 DEF Return, scope, history, PC
<1>5. CASE Unstack(c) \/ SavepointLost(c) \/ MarkFailed(c)
  BY <1>2, <1>5 DEF Unstack, SavepointLost, MarkFailed, scope, history, PC
<1>6. CASE Pop(c)
  BY <1>6, PopChain
<1> QED
  BY <1>1, <1>3, <1>4, <1>5, <1>6 DEF NestedNext

LEMMA NestedStack ==
    ASSUME ScopeInv, ChainInv, StackInv, NEW c \in Calls, NestedNext(c), ~Doomed'
    PROVE  StackInv'
<1>1. ASSUME NEW p \in Parties, Push(c, p) PROVE StackInv'
  BY <1>1, PushStack
<1>2. ~SavepointLost(c)
  <2> SUFFICES ASSUME SavepointLost(c) PROVE Doomed'
    OBVIOUS
  <2>1. call'[c].pc = "mark"
    BY GotoType DEF SavepointLost, ScopeInv, TypeOK, PC
  <2> QED
    BY <2>1 DEF Doomed
<1>3. ~MarkFailed(c)
  BY DEF MarkFailed, Doomed
<1> QED
  BY <1>1, <1>2, <1>3, SavepointStack, SavepointFailsStack, MovesStack, ReleaseStack,
     RollbackToStack, UnstackStack DEF NestedNext

LEMMA SequentialStep ==
    ASSUME ScopeInv, SequentialInv, ~Concurrent, [Next]_vars
    PROVE  SequentialInv'
<1>0. ChainInv
  BY DEF SequentialInv
<1>1. CASE Begin
  <2>1. /\ tx = "none" /\ pending' = [pending EXCEPT ![Root] = {}]
        /\ UNCHANGED <<depth, failed, dead, working, savepoints, call, parent>>
    BY <1>1 DEF Begin, scope
  <2>2. ChainInv'
    <3>1. \A d \in Calls : (Open(d)' <=> Open(d)) /\ call'[d].name = call[d].name
      BY <2>1 DEF Open
    <3> QED
      BY <1>0, <2>1, <3>1, ChainKeeps
  <2>3. TypeOK /\ CallsInv /\ working = {} /\ \A c \in Calls : ~Open(c)
    BY <2>1 DEF ScopeInv, CallsInv
  <2>4. /\ \A c \in Calls : ~Kept(c)'
        /\ \A c \in Calls : pending[c] = None
    BY <2>1, <2>3 DEF Kept, Open, Collecting, CallsInv
  <2>5. \A p \in Parties : pending'[p] # None => pending'[p] = {}
    BY <2>1, <2>3, <2>4 DEF TypeOK, Parties
  <2>6. Collected' = {}
    BY <2>5 DEF Collected
  <2> QED
    BY <2>1, <2>2, <2>3, <2>4, <2>6 DEF SequentialInv, StackInv, SavedInv
<1>2. CASE ContextEnds \/ Commit \/ Rollback
  <2>1. /\ dead' = TRUE \/ tx' = "over"
        /\ UNCHANGED <<depth, call, parent>>
    BY <1>2 DEF ContextEnds, Commit, Rollback, RootReturns, scope, history
  <2>2. \A d \in Calls : (Open(d)' <=> Open(d)) /\ call'[d].name = call[d].name
    BY <2>1 DEF Open
  <2>3. ChainInv'
    BY <1>0, <2>1, <2>2, ChainKeeps
  <2> QED
    BY <2>1, <2>3 DEF SequentialInv, Doomed
<1>3. ASSUME NEW c \in Calls, NestedNext(c) PROVE SequentialInv'
  <2>1. ChainInv'
    BY <1>0, <1>3, NestedChain
  <2>2. ASSUME tx' = "open", ~Doomed' PROVE StackInv'
    <3>1. tx = "open"
      BY <1>3, <2>2 DEF NestedNext, Push, Savepoint, SavepointFails, Return, Release,
         RollbackTo, Unstack, SavepointLost, MarkFailed, Pop, database
    <3>2. ~Doomed
      BY <1>3, <2>2, DoomedStays DEF Next
    <3> QED
      BY <1>0, <1>3, <2>2, <3>1, <3>2, NestedStack DEF SequentialInv
  <2> QED
    BY <2>1, <2>2 DEF SequentialInv
<1>4. ASSUME NEW c \in Parties, NEW w \in Writes, Work(c, w) PROVE SequentialInv'
  <2>1. UNCHANGED <<depth, failed, dead, tx, call, parent>>
    BY <1>4 DEF Work, scope
  <2>2. ChainInv'
    <3>1. \A d \in Calls : (Open(d)' <=> Open(d)) /\ call'[d].name = call[d].name
      BY <2>1 DEF Open
    <3> QED
      BY <1>0, <2>1, <3>1, ChainKeeps
  <2>3. ASSUME tx' = "open", ~Doomed' PROVE StackInv'
    <3>1. tx = "open" /\ ~Doomed
      BY <2>1, <2>3 DEF Doomed
    <3> QED
      BY <1>0, <1>4, <3>1, WorkStack DEF SequentialInv
  <2> QED
    BY <2>2, <2>3 DEF SequentialInv
<1>5. CASE UNCHANGED vars
  <2>1. UNCHANGED <<depth, failed, tx, dead, working, savepoints, call, pending, parent>>
    BY <1>5 DEF vars, scope, database, history
  <2>2. ChainInv'
    <3>1. \A d \in Calls : (Open(d)' <=> Open(d)) /\ call'[d].name = call[d].name
      BY <2>1 DEF Open
    <3> QED
      BY <1>0, <2>1, <3>1, ChainKeeps
  <2>3. ASSUME tx' = "open", ~Doomed' PROVE StackInv'
    <3>1. StackInv /\ TypeOK
      BY <2>1, <2>3 DEF SequentialInv, Doomed, ScopeInv
    <3>2. /\ Collected' = Collected
          /\ \A d \in Calls : Outside(call[d].name)' = Outside(call[d].name)
      BY <2>1, SameWork
    <3>3. SavedInv'
      BY <2>1, <3>1, <3>2, SavedKeeps DEF StackInv, TypeOK, Kept
    <3> QED
      BY <2>1, <3>1, <3>2, <3>3 DEF StackInv
  <2> QED
    BY <2>2, <2>3 DEF SequentialInv
<1> QED
  BY <1>1, <1>2, <1>3, <1>4, <1>5 DEF Next

-----------------------------------------------------------------------------
(* The promise.                                                            *)

MadeIn == [c \in Calls |-> IF pending[c] = None THEN None ELSE parent[c]]

LEMMA PromiseInit == Init => Promise!Init
<1> SUFFICES ASSUME Init PROVE Promise!Init
  OBVIOUS
<1>1. \A c \in Calls : pending[c] = None
  BY DEF Init, Parties
<1> QED
  BY <1>1 DEF Init, Promise!Init, Parties

LEMMA SameMadeIn ==
    ASSUME \A c \in Calls : (pending'[c] = None <=> pending[c] = None) /\ parent'[c] = parent[c]
    PROVE  MadeIn' = MadeIn
BY DEF MadeIn

LEMMA PromiseSavepoint ==
    ASSUME ScopeInv, NEW c \in Calls, Savepoint(c)
    PROVE  Promise!Next
<1>0. TypeOK /\ CallsInv
  BY DEF ScopeInv
<1>1. /\ call[c].pc = "savepoint" /\ pending' = [pending EXCEPT ![c] = {}]
      /\ UNCHANGED <<published, parent>>
  BY DEF Savepoint
<1>2. Open(c) /\ pending[c] = None /\ tx = "open"
  BY <1>0, <1>1 DEF Open, CallsInv, Collecting
<1>3. parent[c] \in (Calls \ {c}) \cup {Root} /\ pending[parent[c]] # None
  BY <1>0, <1>2 DEF CallsInv, Collecting, Parties
<1>4. pending'[c] = {} /\ {} # None /\ \A d \in Calls : d # c => pending'[d] = pending[d]
  BY <1>0, <1>1, NoneType DEF TypeOK
<1>5. MadeIn' = [MadeIn EXCEPT ![c] = parent[c]]
  BY <1>1, <1>4 DEF MadeIn
<1>6. PICK p \in (Calls \ {c}) \cup {Root} : p = parent[c]
  BY <1>3
<1>7. Promise!Enter(c, p)
  BY <1>1, <1>2, <1>3, <1>5, <1>6 DEF Promise!Enter, MadeIn
<1> QED
  BY <1>7 DEF Promise!Next

LEMMA PromiseFails ==
    ASSUME ScopeInv, NEW c \in Calls, pending[c] # None, pending' = [pending EXCEPT ![c] = None],
           UNCHANGED <<published, parent>>
    PROVE  Promise!Next
<1>0. TypeOK
  BY DEF ScopeInv
<1>1. pending'[c] = None /\ \A d \in Calls : d # c => pending'[d] = pending[d]
  BY <1>0, NoneType DEF TypeOK
<1>2. MadeIn' = [MadeIn EXCEPT ![c] = None]
  BY <1>1 DEF MadeIn
<1>3. Promise!Fail(c)
  BY <1>2 DEF Promise!Fail, MadeIn
<1> QED
  BY <1>3 DEF Promise!Next

LEMMA PromiseRelease ==
    ASSUME ScopeInv, NEW c \in Calls, Release(c)
    PROVE  Promise!Next
<1>0. TypeOK
  BY DEF ScopeInv
<1>1. /\ call[c].pc = "release"
      /\ pending' = [pending EXCEPT ![c] = None, ![parent[c]] = @ \cup pending[c]]
      /\ UNCHANGED <<published, parent>>
  BY DEF Release
<1>2. /\ pending[c] \in SUBSET Writes /\ pending[c] # None
      /\ parent[c] \in Parties /\ parent[c] # c
      /\ pending[parent[c]] \in SUBSET Writes /\ pending[parent[c]] # None
  BY <1>1, PendingType DEF Collecting
<1>3. /\ pending'[c] = None /\ pending'[parent[c]] # None
      /\ \A d \in Calls : d # c /\ d # parent[c] => pending'[d] = pending[d]
  BY <1>0, <1>1, <1>2, NoneType DEF TypeOK
<1>4. MadeIn[c] = parent[c] /\ MadeIn' = [MadeIn EXCEPT ![c] = None]
  BY <1>1, <1>2, <1>3 DEF MadeIn
<1>5. Promise!Succeed(c)
  BY <1>1, <1>2, <1>4 DEF Promise!Succeed, MadeIn
<1> QED
  BY <1>5 DEF Promise!Next

LEMMA PromiseNested ==
    ASSUME ScopeInv, NEW c \in Calls, NestedNext(c)
    PROVE  [Promise!Next]_(Promise!vars)
<1>0. TypeOK /\ CallsInv
  BY DEF ScopeInv
<1>1. CASE UNCHANGED <<pending, parent, published>>
  <2>1. UNCHANGED MadeIn
    BY <1>1, SameMadeIn
  <2> QED
    BY <1>1, <2>1 DEF Promise!vars, MadeIn
<1>2. ASSUME NEW p \in Parties, Push(c, p) PROVE [Promise!Next]_(Promise!vars)
  <2>1. /\ call[c].pc = "free" /\ parent' = [parent EXCEPT ![c] = p]
        /\ UNCHANGED <<pending, published>>
    BY <1>2 DEF Push, database
  <2>2. pending[c] = None /\ \A d \in Calls : d # c => parent'[d] = parent[d]
    BY <1>0, <2>1 DEF CallsInv, Collecting, TypeOK
  <2>3. UNCHANGED MadeIn
    BY <2>1, <2>2 DEF MadeIn
  <2> QED
    BY <2>1, <2>3 DEF Promise!vars, MadeIn
<1>3. CASE SavepointFails(c) \/ Return(c) \/ Unstack(c) \/ MarkFailed(c) \/ Pop(c)
  BY <1>1, <1>3 DEF SavepointFails, Return, Unstack, MarkFailed, Pop, database, history
<1>4. CASE Savepoint(c)
  BY <1>4, PromiseSavepoint
<1>5. CASE Release(c)
  BY <1>5, PromiseRelease
<1>6. CASE RollbackTo(c)
  <2>1. pending[c] # None
    BY <1>0, <1>6 DEF RollbackTo, CallsInv, Collecting
  <2> QED
    BY <1>6, <2>1, PromiseFails DEF RollbackTo
<1>7. CASE SavepointLost(c)
  <2>1. pending' = [pending EXCEPT ![c] = None] /\ UNCHANGED <<published, parent>>
    BY <1>7 DEF SavepointLost
  <2>2. CASE pending[c] # None
    BY <2>1, <2>2, PromiseFails
  <2>3. CASE pending[c] = None
    <3>1. pending' = pending
      BY <1>0, <2>1, <2>3 DEF TypeOK
    <3> QED
      BY <1>1, <2>1, <3>1
  <2> QED
    BY <2>2, <2>3
<1> QED
  BY <1>2, <1>3, <1>4, <1>5, <1>6, <1>7 DEF NestedNext

(* What the outermost call publishes is what it collected, or nothing. *)
LEMMA PromiseRoot ==
    ASSUME ScopeInv, SequentialInv, Begin \/ ContextEnds \/ Commit \/ Rollback
    PROVE  [Promise!Next]_(Promise!vars)
<1>0. TypeOK /\ CallsInv
  BY DEF ScopeInv
<1>1. CASE Begin
  <2>1. /\ tx = "none" /\ pending' = [pending EXCEPT ![Root] = {}]
        /\ UNCHANGED <<published, parent>>
    BY <1>1 DEF Begin
  <2>2. pending[Root] = None /\ published = {} /\ \A d \in Calls : pending'[d] = pending[d]
    BY <1>0, <2>1, TransactionAssumption DEF CallsInv, TypeOK, Parties
  <2>3. UNCHANGED MadeIn
    BY <2>1, <2>2, SameMadeIn
  <2>4. Promise!Begin
    BY <2>1, <2>2, <2>3 DEF Promise!Begin, MadeIn
  <2> QED
    BY <2>4 DEF Promise!Next
<1>2. CASE ContextEnds
  <2>1. UNCHANGED <<pending, parent, published>>
    BY <1>2 DEF ContextEnds, history
  <2>2. UNCHANGED MadeIn
    BY <2>1, SameMadeIn
  <2> QED
    BY <2>1, <2>2 DEF Promise!vars, MadeIn
<1>3. CASE Commit \/ Rollback
  <2>1. /\ tx = "open" /\ (\A c \in Calls : ~Open(c))
        /\ pending' = [c \in Parties |-> None] /\ UNCHANGED parent
        /\ published' = published \/ (published' = working /\ ~failed /\ ~dead)
    BY <1>3 DEF Commit, Rollback, RootReturns
  <2>2. pending[Root] # None /\ pending[Root] \subseteq Writes
    BY <1>0, <2>1, NoneType DEF CallsInv, TypeOK
  <2>3. MadeIn' = [c \in Calls |-> None]
    BY <2>1, NoneType DEF MadeIn
  <2>4. published' = published \/ published' = pending[Root]
    <3>1. CASE ~failed /\ ~dead
      <4>1. ~Doomed
        BY <2>1, <3>1 DEF Doomed, Open
      <4>2. working = Collected
        BY <2>1, <4>1 DEF SequentialInv, StackInv
      <4>3. \A c \in Calls : pending[c] = None
        BY <1>0, <2>1 DEF CallsInv, Open, Collecting
      <4>4. Collected = pending[Root]
        BY <2>2, <4>3, NoneType DEF Collected, Parties
      <4> QED
        BY <2>1, <4>2, <4>4
    <3>2. CASE ~(~failed /\ ~dead)
      BY <2>1, <3>2
    <3> QED
      BY <3>1, <3>2
  <2>5. Promise!Finish(TRUE) \/ Promise!Finish(FALSE)
    BY <2>1, <2>2, <2>3, <2>4 DEF Promise!Finish, MadeIn, Parties
  <2> QED
    BY <2>5 DEF Promise!Next
<1> QED
  BY <1>1, <1>2, <1>3

LEMMA PromiseStep ==
    ASSUME ScopeInv, SequentialInv, [Next]_vars
    PROVE  [Promise!Next]_(Promise!vars)
<1>1. CASE Begin \/ ContextEnds \/ Commit \/ Rollback
  BY <1>1, PromiseRoot
<1>2. ASSUME NEW c \in Calls, NestedNext(c) PROVE [Promise!Next]_(Promise!vars)
  BY <1>2, PromiseNested
<1>3. ASSUME NEW c \in Parties, NEW w \in Writes, Work(c, w) PROVE [Promise!Next]_(Promise!vars)
  <2>1. pending' = [pending EXCEPT ![c] = @ \cup {w}] /\ UNCHANGED <<published, parent>>
    BY <1>3 DEF Work
  <2>2. pending[c] # None /\ \A p \in Parties : pending'[p] = None <=> pending[p] = None
    BY <1>3, WorkScope, NoneType
  <2>3. UNCHANGED MadeIn
    BY <2>1, <2>2, NoneType, SameMadeIn
  <2>4. Promise!Work(c, w)
    BY <2>1, <2>2, <2>3 DEF Promise!Work, MadeIn
  <2> QED
    BY <2>4 DEF Promise!Next, Parties
<1>4. CASE UNCHANGED vars
  <2>1. UNCHANGED <<pending, parent, published>>
    BY <1>4 DEF vars, history, database
  <2>2. UNCHANGED MadeIn
    BY <2>1, SameMadeIn
  <2> QED
    BY <2>1, <2>2 DEF Promise!vars, MadeIn
<1> QED
  BY <1>1, <1>2, <1>3, <1>4 DEF Next

\* Nested calls of one goroutine keep the promise, whichever statements fail and
\* wherever the context ends: the outermost Commit publishes exactly the work of
\* the calls that returned nil, and a failed release or rollbackTo publishes nothing.
THEOREM PromiseCorrect ==
    ASSUME ~Concurrent
    PROVE  Spec => KeepsPromise
<1>1. Init => ScopeInv /\ SequentialInv /\ Promise!Init
  BY ScopeInit, SequentialInit, PromiseInit
<1>2. ScopeInv /\ SequentialInv /\ [Next]_vars =>
          ScopeInv' /\ SequentialInv' /\ [Promise!Next]_(Promise!vars)
  BY ScopeStep, SequentialStep, PromiseStep
<1> QED
  BY <1>1, <1>2, PTL DEF Spec, KeepsPromise, Promise!Spec

=============================================================================
