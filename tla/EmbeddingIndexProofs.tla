------------------------ MODULE EmbeddingIndexProofs ------------------------
(***************************************************************************)
(* The safety invariants of EmbeddingIndex, for any rows, owners, spaces   *)
(* and vectors, and any number of reconciliations.                         *)
(***************************************************************************)
EXTENDS EmbeddingIndex, FiniteSetTheorems, TLAPS

Phases == {"idle", "upsert", "orphans", "countExact", "countIndex", "commit"}
Counted == {"countExact", "countIndex", "commit"}

\* A transaction in progress has a trigger beside it, and nothing is left of one
\* that has ended.
Progress ==
  /\ phase # "idle" => trigger
  /\ phase = "idle" => \A id \in Ids : ~Written(id)
  /\ phase # "upsert" => todo = {}

\* No exact row escapes a transaction: it is still to be written, or indexed,
\* by the transaction or by the trigger.
Covered ==
  phase # "idle" => \A id \in Ids :
    exact[id] # NoRow => id \in todo \/ OwnIndex[id] # NoRow

\* What the transaction writes of its snapshot stays as it is, except for the rows
\* it finds deleted, which nobody can insert again beside it.
Upserted ==
  phase # "idle" => \A id \in Ids :
    snap[id] # NoRow =>
      \/ id \in todo
      \/ pending[id] = Derived(snap[id]) /\ Written(id)
      \/ pending[id] = NoRow /\ Written(id) /\ exact[id] = NoRow

\* The foreign keys that were checked at the end of the upsert stay good.
KeysHeld ==
  phase \notin {"idle", "upsert"} => \A id \in Ids :
    Written(id) => References(pending[id], exact[id])

\* Since the orphans were deleted, there are none.
NoOrphans ==
  phase \in Counted => \A id \in Ids : OwnIndex[id] # NoRow => exact[id] # NoRow

Complete ==
  reconciled => trigger /\ \A id \in Ids : exact[id] # NoRow => index[id] # NoRow

IInv ==
  /\ TypeOK
  /\ Progress
  /\ Covered
  /\ Upserted
  /\ KeysHeld
  /\ NoOrphans
  /\ IndexReferencesExact
  /\ Complete

-----------------------------------------------------------------------------
(* Rows.                                                                    *)

\* A derived row has the type of an index row and the scope of its exact row.
LEMMA DerivedRow ==
  ASSUME NEW r \in ExactRows, Indexable(r)
  PROVE  Derived(r) \in IndexRows /\ Derived(r) # NoRow /\ Derived(r) # Untouched
         /\ Derived(r).scope = r.scope
<1>1. r.scope \in Scopes /\ r.vector \in Vectors
  BY DEF ExactRows
<1>2. Derived(r) \in IndexRows /\ Derived(r).scope = r.scope
  BY <1>1 DEF Derived, Indexable, IndexRows
<1> QED
  BY <1>2, RowsAssumption

\* What the UPDATE statements make of a row is a row, and only its scope or only
\* its vector changes.
LEMMA UpdatedRow ==
  ASSUME NEW r \in ExactRows,
         NEW v \in Vectors, NEW w \in Owners, NEW s \in Spaces
  PROVE  /\ [r EXCEPT !.vector = v] \in ExactRows
         /\ [r EXCEPT !.vector = v].scope = r.scope
         /\ [r EXCEPT !.scope.owner = w] \in ExactRows
         /\ [r EXCEPT !.scope.space = s] \in ExactRows
BY DEF ExactRows, Scopes

\* Rows counts at most the ids there are.
LEMMA RowsCounted ==
  ASSUME NEW table
  PROVE  Cardinality(Rows(table)) \in 0 .. Cardinality(Ids)
<1>1. Rows(table) \subseteq Ids
  BY DEF Rows
<1>2. /\ IsFiniteSet(Rows(table))
      /\ Cardinality(Rows(table)) <= Cardinality(Ids)
  BY <1>1, IdsAssumption, FS_Subset
<1> QED
  BY <1>2, IdsAssumption, FS_CardinalityType
-----------------------------------------------------------------------------
(* The application.                                                         *)

\* The row a statement writes refers to the same scope as an index row that is
\* there.
Writable(id, r) ==
  index[id] # NoRow => exact[id] # NoRow /\ r.scope = exact[id].scope

\* Each statement but ChangeSpace and Delete writes one whole row.
LEMMA Statements ==
  ASSUME IInv, AppNext
  PROVE  \E id \in Ids :
           \/ \E r \in ExactRows : Writable(id, r) /\ Write(id, r)
           \/ \E s \in Spaces : ChangeSpace(id, s)
           \/ Delete(id)
<1>1. PICK id \in Ids :
        \/ \E r \in ExactRows : Insert(id, r)
        \/ \E v \in Vectors : UpdateVector(id, v)
        \/ \E w \in Owners : MoveOwner(id, w)
        \/ \E s \in Spaces : ChangeSpace(id, s)
        \/ Delete(id)
  BY DEF AppNext
<1>2. exact[id] = NoRow \/ exact[id] \in ExactRows
  BY DEF IInv, TypeOK
<1>3. CASE \E r \in ExactRows : Insert(id, r)
  <2>1. PICK r \in ExactRows : Insert(id, r)
    BY <1>3
  <2>2. Writable(id, r) /\ Write(id, r)
    BY <2>1 DEF Writable, Insert, IInv, IndexReferencesExact, References
  <2> QED
    BY <2>2
<1>4. CASE \E v \in Vectors : UpdateVector(id, v)
  <2>1. PICK v \in Vectors : UpdateVector(id, v)
    BY <1>4
  <2> DEFINE r == [exact[id] EXCEPT !.vector = v]
  <2>2. r \in ExactRows /\ r.scope = exact[id].scope
    <3>1. exact[id] \in ExactRows
      BY <1>2, <2>1 DEF UpdateVector
    <3> QED
      BY <3>1 DEF ExactRows
  <2>3. Write(id, r) /\ exact[id] # NoRow
    BY <2>1 DEF UpdateVector
  <2>4. Writable(id, r)
    BY <2>2, <2>3 DEF Writable
  <2> QED
    BY <2>2, <2>3, <2>4
<1>5. CASE \E w \in Owners : MoveOwner(id, w)
  <2>1. PICK w \in Owners : MoveOwner(id, w)
    BY <1>5
  <2> DEFINE r == [exact[id] EXCEPT !.scope.owner = w]
  <2>2. r \in ExactRows
    <3>1. exact[id] \in ExactRows
      BY <1>2, <2>1 DEF MoveOwner
    <3> QED
      BY <3>1 DEF ExactRows, Scopes
  <2>3. Write(id, r) /\ Writable(id, r)
    BY <2>1 DEF MoveOwner, Writable
  <2> QED
    BY <2>2, <2>3
<1> QED
  BY <1>1, <1>3, <1>4, <1>5

\* With a trigger, the row and its index row change together; without one, only
\* the row does, and then no transaction runs.
LEMMA WriteStep ==
  ASSUME IInv, NEW id \in Ids, NEW r \in ExactRows, Writable(id, r), Write(id, r)
  PROVE  IInv'
<1> USE DEF IInv
<1>1. /\ exact' = [exact EXCEPT ![id] = r]
      /\ exact \in [Ids -> ExactRows \cup {NoRow}]
      /\ index \in [Ids -> IndexRows \cup {NoRow}]
      /\ r # NoRow /\ ~Written(id)
  BY RowsAssumption DEF Write, TypeOK
<1>2. UNCHANGED <<phase, snap, todo, pending, exactCount, trigger, reconciled>>
  BY DEF Write, txnVars, planVars
<1>3. CASE trigger
  <2>1. /\ index' = [index EXCEPT ![id] = Derived(r)]
        /\ Derived(r) \in IndexRows
        /\ Derived(r) # NoRow /\ Derived(r).scope = r.scope
    BY <1>3, DerivedRow DEF Write
  <2>2. TypeOK'
    BY <1>1, <1>2, <2>1 DEF TypeOK, Rows
  <2>3. Progress'
    BY <1>2 DEF Progress, Written
  <2>4. Covered'
    BY <1>1, <1>2, <2>1 DEF Covered, OwnIndex, Written
  <2>5. KeysHeld' /\ Upserted'
    BY <1>1, <1>2 DEF KeysHeld, Upserted, Derived, Written, References
  <2>6. NoOrphans'
    BY <1>1, <1>2, <2>1 DEF NoOrphans, OwnIndex, Written
  <2>7. IndexReferencesExact'
    BY <1>1, <2>1 DEF IndexReferencesExact, References
  <2>8. Complete'
    BY <1>1, <1>2, <2>1 DEF Complete
  <2> QED
    BY <2>2, <2>3, <2>4, <2>5, <2>6, <2>7, <2>8
<1>4. CASE ~trigger
  <2>1. index' = index /\ phase = "idle" /\ ~reconciled
    BY <1>4 DEF Write, Progress, Complete
  <2>2. TypeOK'
    BY <1>1, <1>2, <2>1 DEF TypeOK, Rows
  <2>3. Progress'
    BY <1>2 DEF Progress, Written
  <2>4. Covered' /\ Upserted' /\ KeysHeld' /\ NoOrphans' /\ Complete'
    BY <1>2, <2>1 DEF Covered, Upserted, KeysHeld, NoOrphans, Counted, Complete
  <2>5. IndexReferencesExact'
    BY <1>1, <2>1 DEF IndexReferencesExact, References, Writable
  <2> QED
    BY <2>2, <2>3, <2>4, <2>5
<1> QED
  BY <1>3, <1>4

\* A row changes its space only when no index row, committed or pending, refers
\* to it.
LEMMA ChangeSpaceStep ==
  ASSUME IInv, NEW id \in Ids, NEW s \in Spaces, ChangeSpace(id, s)
  PROVE  IInv'
<1> USE DEF IInv
<1>1. PICK r \in ExactRows : /\ exact' = [exact EXCEPT ![id] = r]
                             /\ r # NoRow
  <2>1. exact[id] \in ExactRows
    BY DEF ChangeSpace, TypeOK
  <2>2. [exact[id] EXCEPT !.scope.space = s] \in ExactRows
    BY <2>1 DEF ExactRows, Scopes
  <2> QED
    BY <2>2, RowsAssumption DEF ChangeSpace
<1>2. /\ UNCHANGED <<index, phase, snap, todo, pending, exactCount, trigger, reconciled>>
      /\ exact \in [Ids -> ExactRows \cup {NoRow}]
      /\ exact[id] # NoRow /\ index[id] = NoRow /\ ~KeyShared(id)
  BY DEF ChangeSpace, txnVars, planVars, TypeOK
<1>3. TypeOK'
  BY <1>1, <1>2 DEF TypeOK, Rows
<1>4. Progress'
  BY <1>2 DEF Progress, Written
<1>5. Covered' /\ NoOrphans' /\ Complete'
  BY <1>1, <1>2 DEF Covered, NoOrphans, Complete, OwnIndex
<1>6. KeysHeld' /\ Upserted'
  BY <1>1, <1>2 DEF KeysHeld, Upserted, Derived, Written, References, KeyShared
<1>7. IndexReferencesExact'
  BY <1>1, <1>2 DEF IndexReferencesExact, References
<1> QED
  BY <1>3, <1>4, <1>5, <1>6, <1>7

\* Neither is a row deleted that a pending index row refers to.
LEMMA DeleteStep ==
  ASSUME IInv, NEW id \in Ids, Delete(id)
  PROVE  IInv'
<1> USE DEF IInv
<1>1. /\ exact' = [exact EXCEPT ![id] = NoRow]
      /\ index' = [index EXCEPT ![id] = NoRow]
      /\ exact \in [Ids -> ExactRows \cup {NoRow}]
      /\ index \in [Ids -> IndexRows \cup {NoRow}]
      /\ UNCHANGED <<phase, snap, todo, pending, exactCount, trigger, reconciled>>
      /\ Written(id) => phase = "upsert"
  BY DEF Delete, txnVars, planVars, TypeOK, KeyShared
<1>2. TypeOK'
  BY <1>1 DEF TypeOK, Rows
<1>3. Progress'
  BY <1>1 DEF Progress, Written
<1>4. Covered'
  BY <1>1 DEF Covered, OwnIndex
<1>5. NoOrphans'
  BY <1>1 DEF NoOrphans, Counted, OwnIndex, Written
<1>6. KeysHeld' /\ Upserted'
  BY <1>1 DEF KeysHeld, Upserted, Derived, Written, References
<1>7. IndexReferencesExact' /\ Complete'
  BY <1>1 DEF IndexReferencesExact, References, Complete
<1> QED
  BY <1>2, <1>3, <1>4, <1>5, <1>6, <1>7
-----------------------------------------------------------------------------
(* The schema plan and the reconciliation.                                  *)

\* The trigger goes and comes only while no transaction runs; what had been
\* complete is not called so any more.
LEMMA PlanStep ==
  ASSUME IInv, DropTrigger \/ CreateTrigger
  PROVE  IInv'
<1> USE DEF IInv
<1>1. /\ UNCHANGED <<exact, index, phase, snap, todo, pending, exactCount>>
      /\ trigger' \in BOOLEAN
      /\ phase # "idle" => trigger'
      /\ reconciled' \in BOOLEAN
      /\ reconciled' => reconciled /\ trigger'
  <2>1. trigger \in BOOLEAN /\ reconciled \in BOOLEAN
    BY DEF TypeOK
  <2>2. CASE DropTrigger
    BY <2>2 DEF DropTrigger, appVars, txnVars
  <2>3. CASE CreateTrigger
    <3>1. UNCHANGED <<exact, index, phase, snap, todo, pending, exactCount>>
      BY <2>3 DEF CreateTrigger, appVars, txnVars
    <3>2. trigger' = TRUE /\ reconciled' = reconciled
      BY <2>3 DEF CreateTrigger
    <3> QED
      BY <2>1, <3>1, <3>2
  <2> QED
    BY <2>2, <2>3
<1> QED
  BY <1>1 DEF TypeOK, Progress, Covered, Upserted, Derived, KeysHeld, NoOrphans, Counted,
              Complete, IndexReferencesExact, OwnIndex, Written, Rows, References

LEMMA BeginStep ==
  ASSUME IInv, BeginReconcile
  PROVE  IInv'
<1> USE DEF IInv, BeginReconcile, appVars, planVars
<1>1. TypeOK'
  BY DEF TypeOK, Rows
<1>2. Progress'
  BY DEF Progress, Written
<1>3. Covered' /\ Upserted'
  BY DEF Covered, Upserted, Rows
<1>4. KeysHeld' /\ NoOrphans' /\ IndexReferencesExact' /\ Complete'
  BY DEF KeysHeld, NoOrphans, Counted, IndexReferencesExact, Complete
<1> QED
  BY <1>1, <1>2, <1>3, <1>4

LEMMA UpsertStep ==
  ASSUME IInv, NEW id \in Ids, Upsert(id)
  PROVE  IInv'
<1> USE DEF IInv
<1>1. /\ phase = "upsert" /\ id \in todo
      /\ todo' = todo \ {id}
      /\ pending' = [pending EXCEPT ![id] = Derived(snap[id])]
      /\ UNCHANGED <<exact, index, phase, snap, exactCount, trigger, reconciled>>
  BY DEF Upsert, appVars, planVars
<1>2. /\ Derived(snap[id]) \in IndexRows
      /\ Derived(snap[id]) # NoRow /\ Derived(snap[id]) # Untouched
  <2>1. snap[id] \in ExactRows
    BY <1>1 DEF TypeOK, Rows
  <2> QED
    BY <2>1, DerivedRow DEF Upsert
<1>3. TypeOK'
  BY <1>1, <1>2 DEF TypeOK, Rows
<1>4. Progress'
  BY <1>1 DEF Progress
<1>5. Covered' /\ Upserted'
  BY <1>1, <1>2 DEF Covered, Upserted, Derived, OwnIndex, Written, TypeOK
<1>6. KeysHeld' /\ NoOrphans' /\ IndexReferencesExact' /\ Complete'
  BY <1>1 DEF KeysHeld, NoOrphans, Counted, IndexReferencesExact, Complete
<1> QED
  BY <1>3, <1>4, <1>5, <1>6

LEMMA EndUpsertStep ==
  ASSUME IInv, EndUpsert
  PROVE  IInv'
<1> USE DEF IInv, EndUpsert, appVars, planVars
<1>1. TypeOK' /\ IndexReferencesExact' /\ Complete'
  BY DEF TypeOK, Rows, IndexReferencesExact, Complete
<1>2. Progress' /\ Covered' /\ Upserted' /\ NoOrphans'
  BY DEF Progress, Covered, Upserted, Derived, Written, OwnIndex, NoOrphans, Counted
<1>3. KeysHeld'
  BY DEF KeysHeld, ForeignKeysHold, Written
<1> QED
  BY <1>1, <1>2, <1>3

LEMMA DeleteOrphansStep ==
  ASSUME IInv, DeleteOrphans
  PROVE  IInv'
<1> USE DEF IInv
<1>1. /\ phase = "orphans" /\ phase' = "countExact"
      /\ UNCHANGED <<exact, index, snap, todo, exactCount, trigger, reconciled>>
      /\ pending \in [Ids -> IndexRows \cup {NoRow, Untouched}]
      /\ pending' = [id \in Ids |-> IF id \in Rows(OwnIndex) \ Rows(exact)
                                      THEN NoRow ELSE pending[id]]
  BY DEF DeleteOrphans, appVars, planVars, TypeOK
<1>2. \A id \in Ids : \/ pending'[id] = pending[id]
                      \/ pending'[id] = NoRow /\ exact[id] = NoRow
  BY <1>1 DEF Rows
<1>3. \A id \in Ids : pending'[id] = NoRow
                        \/ (pending'[id] = pending[id]
                            /\ (OwnIndex[id] # NoRow => exact[id] # NoRow))
  BY <1>1 DEF Rows
<1>4. TypeOK'
  BY <1>1 DEF TypeOK, Rows
<1>5. Progress' /\ IndexReferencesExact' /\ Complete'
  BY <1>1 DEF Progress, IndexReferencesExact, Complete
<1>6. Covered' /\ Upserted'
  BY <1>1, <1>2, RowsAssumption DEF Covered, Upserted, Derived, Written, OwnIndex
<1>7. KeysHeld'
  BY <1>1, <1>2 DEF KeysHeld, Written, References
<1>8. NoOrphans'
  BY <1>1, <1>3, RowsAssumption DEF NoOrphans, OwnIndex
<1> QED
  BY <1>4, <1>5, <1>6, <1>7, <1>8

LEMMA CountStep ==
  ASSUME IInv, CountExact \/ CountIndex
  PROVE  IInv'
<1> USE DEF IInv
<1>1. /\ UNCHANGED <<exact, index, snap, todo, pending, trigger, reconciled>>
      /\ phase \in Counted /\ phase' \in Counted
      /\ exactCount' \in 0 .. Cardinality(Ids)
  BY RowsCounted DEF CountExact, CountIndex, appVars, planVars, Counted, TypeOK
<1>2. TypeOK'
  BY <1>1 DEF TypeOK, Rows, Counted
<1>3. Progress' /\ Covered' /\ Upserted' /\ KeysHeld' /\ NoOrphans'
  BY <1>1 DEF Progress, Covered, Upserted, Derived, KeysHeld, NoOrphans, Counted, OwnIndex, Written, References
<1>4. IndexReferencesExact' /\ Complete'
  BY <1>1 DEF IndexReferencesExact, Complete, References
<1> QED
  BY <1>2, <1>3, <1>4

\* What holds at the end of every transaction.
LEMMA EndStep ==
  ASSUME IInv, EndTransaction, UNCHANGED <<exact, trigger>>,
         index' \in [Ids -> IndexRows \cup {NoRow}], reconciled' \in BOOLEAN,
         IndexReferencesExact', Complete'
  PROVE  IInv'
<1> USE DEF IInv, EndTransaction
<1>1. TypeOK'
  <2>1. 0 \in 0 .. Cardinality(Ids)
    BY IdsAssumption, FS_CardinalityType
  <2> QED
    BY <2>1 DEF TypeOK, Rows
<1>2. Progress'
  BY DEF Progress, Written
<1>3. Covered' /\ Upserted' /\ KeysHeld' /\ NoOrphans'
  BY DEF Covered, Upserted, KeysHeld, NoOrphans, Counted
<1> QED
  BY <1>1, <1>2, <1>3

LEMMA AbortStep ==
  ASSUME IInv, RaiseMismatch \/ Abort
  PROVE  IInv'
<1>1. EndTransaction /\ UNCHANGED <<exact, index, trigger, reconciled>>
  BY DEF RaiseMismatch, Abort, appVars, planVars
<1>2. IndexReferencesExact' /\ Complete'
  BY <1>1 DEF IInv, IndexReferencesExact, Complete, References
<1> QED
  BY <1>1, <1>2, EndStep DEF IInv, TypeOK

LEMMA CommitStep ==
  ASSUME IInv, CommitReconcile
  PROVE  IInv'
<1> USE DEF IInv
<1>1. /\ EndTransaction /\ UNCHANGED <<exact, trigger>>
      /\ index' = OwnIndex /\ reconciled' = TRUE /\ phase = "commit"
  BY DEF CommitReconcile
<1>2. OwnIndex \in [Ids -> IndexRows \cup {NoRow}]
  BY DEF OwnIndex, TypeOK
<1>3. IndexReferencesExact'
  BY <1>1 DEF IndexReferencesExact, KeysHeld, OwnIndex, Written, References
<1>4. Complete'
  BY <1>1 DEF Complete, Covered, Progress
<1> QED
  BY <1>1, <1>2, <1>3, <1>4, EndStep
-----------------------------------------------------------------------------
(* The theorems.                                                            *)

LEMMA InitIInv == Init => IInv
<1> SUFFICES ASSUME Init PROVE IInv
  OBVIOUS
<1>1. TypeOK
  <2>1. 0 \in 0 .. Cardinality(Ids)
    BY IdsAssumption, FS_CardinalityType
  <2> QED
    BY <2>1 DEF Init, TypeOK, Rows
<1>2. Progress /\ Covered /\ Upserted /\ KeysHeld /\ NoOrphans
  BY DEF Init, Progress, Covered, Upserted, KeysHeld, NoOrphans, Counted, Written
<1>3. IndexReferencesExact /\ Complete
  BY DEF Init, IndexReferencesExact, References, Complete
<1> QED
  BY <1>1, <1>2, <1>3 DEF IInv

LEMMA NextIInv == IInv /\ [Next]_vars => IInv'
<1> SUFFICES ASSUME IInv, [Next]_vars PROVE IInv'
  OBVIOUS
<1>1. CASE AppNext
  <2>1. PICK id \in Ids :
          \/ \E r \in ExactRows : Writable(id, r) /\ Write(id, r)
          \/ \E s \in Spaces : ChangeSpace(id, s)
          \/ Delete(id)
    BY <1>1, Statements
  <2> QED
    BY <2>1, WriteStep, ChangeSpaceStep, DeleteStep
<1>2. CASE DropTrigger \/ CreateTrigger
  BY <1>2, PlanStep
<1>3. CASE ReconcileNext
  BY <1>3, BeginStep, UpsertStep, EndUpsertStep, DeleteOrphansStep, CountStep,
     AbortStep, CommitStep DEF ReconcileNext
<1>4. CASE UNCHANGED vars
  BY <1>4 DEF vars, IInv, TypeOK, Progress, Covered, Upserted, Derived, KeysHeld, NoOrphans, Complete,
     IndexReferencesExact, OwnIndex, Written, Rows, References
<1> QED
  BY <1>1, <1>2, <1>3, <1>4 DEF Next

LEMMA Inductive == Spec => []IInv
BY InitIInv, NextIInv, PTL DEF Spec

\* Every variable keeps its type.
THEOREM TypeCorrect == Spec => []TypeOK
<1>1. IInv => TypeOK
  BY DEF IInv
<1> QED
  BY <1>1, Inductive, PTL

\* No index row without its exact row, in the same tenant, space and purpose:
\* neither the trigger, nor a reconciliation that writes what it read before,
\* nor a plan that replaces the trigger makes one.
THEOREM IndexRefers == Spec => []IndexReferencesExact
<1>1. IInv => IndexReferencesExact
  BY DEF IInv
<1> QED
  BY <1>1, Inductive, PTL

\* No exact row is missing from the index once a reconciliation has committed
\* after the trigger was created.
THEOREM ReconciledForGood == Spec => []ReconciledIsComplete
<1>1. IInv => ReconciledIsComplete
  BY DEF IInv, Complete, ReconciledIsComplete, Rows
<1> QED
  BY <1>1, Inductive, PTL

\* The count check of reconcile-index.sql never has a difference to report.
THEOREM CheckFindsNothing == Spec => []NothingToReport
<1>1. IInv => NothingToReport
  BY DEF IInv, Covered, NoOrphans, Counted, Progress, NothingToReport, Rows
<1> QED
  BY <1>1, Inductive, PTL

\* With a trigger, an application statement makes no index row stale.
THEOREM TriggerIsFaithful == Spec => TriggerKeepsCurrent
<1>1. ASSUME IInv, AppNext /\ trigger, NEW x \in Ids, Current(x)
      PROVE  Current(x)'
  <2>1. PICK id \in Ids :
          \/ \E r \in ExactRows : Writable(id, r) /\ Write(id, r)
          \/ \E s \in Spaces : ChangeSpace(id, s)
          \/ Delete(id)
    BY <1>1, Statements
  <2>2. exact \in [Ids -> ExactRows \cup {NoRow}] /\ index \in [Ids -> IndexRows \cup {NoRow}]
    BY <1>1 DEF IInv, TypeOK
  <2>3. CASE \E r \in ExactRows : Write(id, r)
    <3>1. PICK r \in ExactRows : Write(id, r)
      BY <2>3
    <3>2. exact' = [exact EXCEPT ![id] = r] /\ index' = [index EXCEPT ![id] = Derived(r)]
      BY <1>1, <3>1 DEF Write
    <3> QED
      BY <1>1, <2>2, <3>2, RowsAssumption DEF Current, Derived
  <2>4. CASE \E s \in Spaces : ChangeSpace(id, s)
    BY <1>1, <2>2, <2>4 DEF ChangeSpace, Current, Derived
  <2>5. CASE Delete(id)
    BY <1>1, <2>2, <2>5 DEF Delete, Current, Derived
  <2> QED
    BY <2>1, <2>3, <2>4, <2>5
<1>2. IInv => [AppNext /\ trigger => \A id \in Ids : Current(id) => Current(id)']_vars
  BY <1>1
<1> QED
  BY <1>2, Inductive, PTL DEF TriggerKeepsCurrent

\* What a reconciliation commits is current for each row that is still the one
\* of its snapshot.
THEOREM ReconciliationRepairs == Spec => ReconcileRepairs
<1>1. ASSUME IInv, CommitReconcile, NEW id \in Ids,
             snap[id] # NoRow, exact[id] = snap[id]
      PROVE  index'[id] = Derived(exact[id])
  <2>1. phase = "commit" /\ index' = OwnIndex /\ todo = {}
    BY <1>1 DEF CommitReconcile, IInv, Progress
  <2>2. pending[id] = Derived(snap[id]) /\ Written(id)
    BY <1>1, <2>1 DEF IInv, Upserted
  <2> QED
    BY <1>1, <2>1, <2>2 DEF OwnIndex, Written
<1>2. IInv => [CommitReconcile =>
                 \A id \in Ids : snap[id] # NoRow /\ exact[id] = snap[id]
                                   => index'[id] = Derived(exact[id])]_vars
  BY <1>1
<1> QED
  BY <1>2, Inductive, PTL DEF ReconcileRepairs
=============================================================================
