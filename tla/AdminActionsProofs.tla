------------------------- MODULE AdminActionsProofs -------------------------
(***************************************************************************)
(* TLAPS proofs about AdminActions, for every set of calls, keys, actors   *)
(* and commands and every size of the pool: its invariants, and that it    *)
(* implements AdminLedger.                                                 *)
(*                                                                         *)
(* The invariants are not inductive: what a call returns depends on what   *)
(* its transaction did some statements earlier.  IInv adds that history:   *)
(* Shape ties the call's position to its transaction's state, its row and  *)
(* its event; KeyLock is the unique index, which also covers rows not yet  *)
(* committed; the rest says what a call has learnt of other transactions,  *)
(* all of it about committed rows, which no step takes back                *)
(* (AcceptedIsStable).                                                     *)
(***************************************************************************)
EXTENDS AdminActions, FiniteSetTheorems, TLAPS

\* The call's position determines how far its transaction is, and a
\* transaction that may commit has an event exactly when it has a row.
Shape(o) ==
  /\ pc[o] = "ready" <=> input[o] = NoInput
  /\ pc[o] \in {"ready", "begin"} => txn[o] = "none"
  /\ pc[o] \in {"insert", "lookup", "outbox", "commit", "rollback"} =>
       txn[o] \in {"open", "aborted"}
  /\ pc[o] = "committing" => txn[o] \in {"committing", "committed", "aborted"}
  /\ pc[o] = "ok" => txn[o] = "committed"
  /\ pc[o] = "conflict" => txn[o] = "aborted"
  /\ row[o] \in {NoInput, input[o]}
  /\ pc[o] \in {"ready", "begin", "insert", "lookup", "rollback", "conflict"} =>
       row[o] = NoInput /\ event[o] = NoCall
  /\ pc[o] = "outbox" => row[o] # NoInput /\ answer[o] = o /\ event[o] = NoCall
  /\ pc[o] \in {"commit", "committing", "ok"}
       \/ txn[o] \in {"committing", "committed"} =>
       event[o] = IF row[o] # NoInput THEN o ELSE NoCall

\* The unique index on idempotency_key.
KeyLock ==
  \A o, p \in Calls :
    LiveRow(o) /\ LiveRow(p) /\ row[o].key = row[p].key => o = p

\* What call o relies on when it is about to look the key up, to report a
\* conflict, or to return an operation id.
Learnt(o) ==
  /\ pc[o] = "lookup" =>
       \E p \in Calls : Accepted(p) /\ row[p].key = input[o].key
  /\ pc[o] \in {"rollback", "conflict"} =>
       \E p \in Calls : /\ Accepted(p)
                        /\ row[p].key = input[o].key
                        /\ row[p] # input[o]
  /\ pc[o] \in {"commit", "committing", "ok"} =>
       /\ answer[o] \in Calls
       /\ row[answer[o]] = input[o]
       /\ answer[o] = o \/ Accepted(answer[o])

IInv ==
  /\ TypeOK
  /\ \A o \in Calls : Shape(o)
  /\ KeyLock
  /\ \A o \in Calls : Learnt(o)

-----------------------------------------------------------------------------
\* The pool never lends more than MaxConnections connections.
LEMMA PoolStep ==
  ASSUME TypeOK, [Next]_vars
  PROVE  conn' \subseteq Calls /\ Cardinality(conn') <= MaxConnections
<1> USE CallsAssumption, PoolAssumption
<1>1. IsFiniteSet(conn) /\ Cardinality(conn) \in Nat
  BY FS_Subset, FS_CardinalityType DEF TypeOK
<1>2. CASE \E o \in Calls : Begin(o)
  <2>1. PICK o \in Calls : Begin(o)
    BY <1>2
  <2>2. Cardinality(conn \cup {o})
          = IF o \in conn THEN Cardinality(conn) ELSE Cardinality(conn) + 1
    BY <1>1, FS_AddElement
  <2>3. Cardinality(conn) < MaxConnections /\ conn' = conn \cup {o}
    BY <2>1 DEF Begin
  <2>4. Cardinality(conn \cup {o}) <= MaxConnections
    BY <1>1, <2>2, <2>3
  <2>5. QED
    BY <2>3, <2>4 DEF TypeOK
<1>3. CASE \E o \in Calls : conn' \in {conn, conn \ {o}}
  <2>1. PICK o \in Calls : conn' \in {conn, conn \ {o}}
    BY <1>3
  <2>2. Cardinality(conn \ {o})
          = IF o \in conn THEN Cardinality(conn) - 1 ELSE Cardinality(conn)
    BY <1>1, FS_RemoveElement
  <2>3. Cardinality(conn) <= MaxConnections
    BY DEF TypeOK
  <2>4. Cardinality(conn \ {o}) <= MaxConnections
    BY <1>1, <2>2, <2>3
  <2>5. QED
    BY <2>1, <2>3, <2>4 DEF TypeOK
<1>4. CASE conn' = conn
  BY <1>4 DEF TypeOK
<1>5. QED
  BY <1>2, <1>3, <1>4
  DEF Next, Progress, Start, InsertRow, InsertConflicts, LookupFinds,
      LookupMisses, RecordEvent, SendCommit, ReturnOk, ReturnConflict, Commit,
      Fail, Settle, LoseSession, vars

\* Every variable keeps its type.
LEMMA TypeStep ==
  ASSUME TypeOK, [Next]_vars
  PROVE  TypeOK'
<1>1. conn' \subseteq Calls /\ Cardinality(conn') <= MaxConnections
  BY PoolStep
<1> USE <1>1 DEF TypeOK, Awaiting, Returned
<1>2. ASSUME NEW o \in Calls, NEW i \in Inputs, Start(o, i)
      PROVE  TypeOK'
  BY <1>2 DEF Start
<1>3. ASSUME NEW o \in Calls, Progress(o)
      PROVE  TypeOK'
  <2>1. CASE Begin(o)
    BY <2>1 DEF Begin
  <2>2. CASE InsertRow(o)
    BY <2>2 DEF InsertRow
  <2>3. CASE InsertConflicts(o)
    BY <2>3 DEF InsertConflicts
  <2>4. CASE LookupFinds(o)
    BY <2>4 DEF LookupFinds, Matches
  <2>5. CASE LookupMisses(o)
    BY <2>5 DEF LookupMisses
  <2>6. CASE RecordEvent(o)
    BY <2>6 DEF RecordEvent
  <2>7. CASE SendCommit(o)
    BY <2>7 DEF SendCommit
  <2>8. CASE ReturnOk(o)
    BY <2>8 DEF ReturnOk
  <2>9. CASE ReturnConflict(o)
    BY <2>9 DEF ReturnConflict
  <2>10. QED
    BY <1>3, <2>1, <2>2, <2>3, <2>4, <2>5, <2>6, <2>7, <2>8, <2>9 DEF Progress
<1>4. ASSUME NEW o \in Calls, Commit(o)
      PROVE  TypeOK'
  BY <1>4 DEF Commit
<1>5. ASSUME NEW o \in Calls, Fail(o)
      PROVE  TypeOK'
  BY <1>5 DEF Fail
<1>6. ASSUME NEW o \in Calls, Settle(o)
      PROVE  TypeOK'
  BY <1>6 DEF Settle
<1>7. ASSUME NEW o \in Calls, LoseSession(o)
      PROVE  TypeOK'
  BY <1>7 DEF LoseSession
<1>8. CASE UNCHANGED vars
  BY <1>8 DEF vars
<1>9. QED
  BY <1>2, <1>3, <1>4, <1>5, <1>6, <1>7, <1>8 DEF Next

LEMMA TypeInit == Init => TypeOK
<1>1. Cardinality({}) = 0
  BY FS_EmptySet
<1>2. QED
  BY <1>1, PoolAssumption DEF Init, TypeOK, Awaiting, Returned

\* The types hold for every instance of the model.
THEOREM TypeCorrect == Spec => []TypeOK
  BY TypeInit, TypeStep, PTL DEF Spec

-----------------------------------------------------------------------------
\* No step takes a committed row back or changes it, nor the input of a call
\* that was made.
LEMMA AcceptedIsStable ==
  ASSUME IInv, [Next]_vars, NEW p \in Calls
  PROVE  /\ Accepted(p) => Accepted(p)' /\ row'[p] = row[p]
         /\ pc[p] # "ready" => input'[p] = input[p]
<1> TypeOK /\ Shape(p)
  BY DEF IInv
<1> USE DEF TypeOK, Accepted
<1> DEFINE Goal == /\ Accepted(p) => Accepted(p)' /\ row'[p] = row[p]
                   /\ pc[p] # "ready" => input'[p] = input[p]
<1>1. ASSUME NEW o \in Calls, NEW i \in Inputs, Start(o, i)
      PROVE  Goal
  BY <1>1 DEF Start
<1>2. ASSUME NEW o \in Calls, Progress(o)
      PROVE  Goal
  <2>1. CASE Begin(o)
    BY <2>1 DEF Begin, Shape
  <2>2. CASE InsertRow(o)
    BY <2>2 DEF InsertRow
  <2>3. CASE InsertConflicts(o)
    BY <2>3 DEF InsertConflicts
  <2>4. CASE LookupFinds(o)
    BY <2>4 DEF LookupFinds
  <2>5. CASE LookupMisses(o)
    BY <2>5 DEF LookupMisses
  <2>6. CASE RecordEvent(o)
    BY <2>6 DEF RecordEvent
  <2>7. CASE SendCommit(o)
    BY <2>7 DEF SendCommit
  <2>8. CASE ReturnOk(o)
    BY <2>8 DEF ReturnOk
  <2>9. CASE ReturnConflict(o)
    BY <2>9 DEF ReturnConflict
  <2>10. QED
    BY <1>2, <2>1, <2>2, <2>3, <2>4, <2>5, <2>6, <2>7, <2>8, <2>9 DEF Progress
<1>3. ASSUME NEW o \in Calls, Commit(o)
      PROVE  Goal
  BY <1>3 DEF Commit
<1>4. ASSUME NEW o \in Calls, Fail(o)
      PROVE  Goal
  BY <1>4 DEF Fail
<1>5. ASSUME NEW o \in Calls, Settle(o)
      PROVE  Goal
  BY <1>5 DEF Settle
<1>6. ASSUME NEW o \in Calls, LoseSession(o)
      PROVE  Goal
  BY <1>6 DEF LoseSession
<1>7. CASE UNCHANGED vars
  BY <1>7 DEF vars
<1>8. QED
  BY <1>1, <1>2, <1>3, <1>4, <1>5, <1>6, <1>7 DEF Next

\* Every step keeps every call and its transaction in step.
LEMMA ShapeStep ==
  ASSUME IInv, [Next]_vars, NEW q \in Calls
  PROVE  Shape(q)'
<1> TypeOK /\ Shape(q) /\ NoInput \notin Inputs /\ NoCall \notin Calls
  BY InputsAssumption, CallsAssumption DEF IInv
<1> USE DEF TypeOK, Shape, Awaiting
<1>1. ASSUME NEW o \in Calls, NEW i \in Inputs, Start(o, i)
      PROVE  Shape(q)'
  BY <1>1 DEF Start
<1>2. ASSUME NEW o \in Calls, Progress(o)
      PROVE  Shape(q)'
  <2>1. CASE Begin(o)
    BY <2>1 DEF Begin
  <2>2. CASE InsertRow(o)
    BY <2>2 DEF InsertRow
  <2>3. CASE InsertConflicts(o)
    BY <2>3 DEF InsertConflicts
  <2>4. CASE LookupFinds(o)
    BY <2>4 DEF LookupFinds
  <2>5. CASE LookupMisses(o)
    BY <2>5 DEF LookupMisses
  <2>6. CASE RecordEvent(o)
    BY <2>6 DEF RecordEvent
  <2>7. CASE SendCommit(o)
    BY <2>7 DEF SendCommit
  <2>8. CASE ReturnOk(o)
    BY <2>8 DEF ReturnOk
  <2>9. CASE ReturnConflict(o)
    BY <2>9 DEF ReturnConflict
  <2>10. QED
    BY <1>2, <2>1, <2>2, <2>3, <2>4, <2>5, <2>6, <2>7, <2>8, <2>9 DEF Progress
<1>3. ASSUME NEW o \in Calls, Commit(o)
      PROVE  Shape(q)'
  BY <1>3 DEF Commit
<1>4. ASSUME NEW o \in Calls, Fail(o)
      PROVE  Shape(q)'
  BY <1>4 DEF Fail
<1>5. ASSUME NEW o \in Calls, Settle(o)
      PROVE  Shape(q)'
  BY <1>5 DEF Settle
<1>6. ASSUME NEW o \in Calls, LoseSession(o)
      PROVE  Shape(q)'
  BY <1>6 DEF LoseSession
<1>7. CASE UNCHANGED vars
  BY <1>7 DEF vars
<1>8. QED
  BY <1>1, <1>2, <1>3, <1>4, <1>5, <1>6, <1>7 DEF Next

\* An insert succeeds only when no live row has the key, and no other step
\* makes a row live.
LEMMA KeyLockStep ==
  ASSUME IInv, [Next]_vars
  PROVE  KeyLock'
<1> TypeOK /\ KeyLock /\ (\A o \in Calls : Shape(o)) /\ NoInput \notin Inputs
  BY InputsAssumption DEF IInv
<1> USE DEF TypeOK, KeyLock, LiveRow
<1>1. ASSUME NEW o \in Calls, NEW i \in Inputs, Start(o, i)
      PROVE  KeyLock'
  BY <1>1 DEF Start
<1>2. ASSUME NEW o \in Calls, Progress(o)
      PROVE  KeyLock'
  <2>1. CASE Begin(o)
    BY <2>1 DEF Begin, Shape
  <2>2. CASE InsertRow(o)
    <3>1. \A p \in Calls : LiveRow(p) => row[p].key # input[o].key
      BY <2>2 DEF InsertRow, Arbiters
    <3>2. /\ row' = [row EXCEPT ![o] = input[o]]
          /\ txn' = txn
      BY <2>2 DEF InsertRow
    <3>3. \A p \in Calls : p # o => row'[p] = row[p] /\ LiveRow(p)' = LiveRow(p)
      BY <3>2
    <3>4. row'[o] = input[o]
      BY <3>2
    <3>5. QED
      BY <3>1, <3>3, <3>4
  <2>3. CASE InsertConflicts(o)
    BY <2>3 DEF InsertConflicts
  <2>4. CASE LookupFinds(o)
    BY <2>4 DEF LookupFinds
  <2>5. CASE LookupMisses(o)
    BY <2>5 DEF LookupMisses
  <2>6. CASE RecordEvent(o)
    BY <2>6 DEF RecordEvent
  <2>7. CASE SendCommit(o)
    BY <2>7 DEF SendCommit
  <2>8. CASE ReturnOk(o)
    BY <2>8 DEF ReturnOk
  <2>9. CASE ReturnConflict(o)
    BY <2>9 DEF ReturnConflict
  <2>10. QED
    BY <1>2, <2>1, <2>2, <2>3, <2>4, <2>5, <2>6, <2>7, <2>8, <2>9 DEF Progress
<1>3. ASSUME NEW o \in Calls, Commit(o)
      PROVE  KeyLock'
  BY <1>3 DEF Commit
<1>4. ASSUME NEW o \in Calls, Fail(o)
      PROVE  KeyLock'
  BY <1>4 DEF Fail
<1>5. ASSUME NEW o \in Calls, Settle(o)
      PROVE  KeyLock'
  BY <1>5 DEF Settle
<1>6. ASSUME NEW o \in Calls, LoseSession(o)
      PROVE  KeyLock'
  BY <1>6 DEF LoseSession
<1>7. CASE UNCHANGED vars
  BY <1>7 DEF vars
<1>8. QED
  BY <1>1, <1>2, <1>3, <1>4, <1>5, <1>6, <1>7 DEF Next

\* What a call has learnt stays true for as long as the call relies on it.
LEMMA LearntIsKept ==
  ASSUME IInv, [Next]_vars, NEW q \in Calls,
         pc'[q] = "lookup" => pc[q] = "lookup",
         pc'[q] \in {"rollback", "conflict"} => pc[q] \in {"rollback", "conflict"},
         pc'[q] \in {"commit", "committing", "ok"} =>
           /\ pc[q] \in {"commit", "committing", "ok"}
           /\ answer'[q] = answer[q]
           /\ row'[q] = row[q]
  PROVE  Learnt(q)'
<1>1. \A p \in Calls : Accepted(p) => Accepted(p)' /\ row'[p] = row[p]
  BY AcceptedIsStable
<1>2. pc[q] # "ready" => input'[q] = input[q]
  BY AcceptedIsStable
<1>3. Learnt(q)
  BY DEF IInv
<1>4. CASE pc'[q] = "lookup"
  BY <1>1, <1>2, <1>3, <1>4 DEF Learnt
<1>5. CASE pc'[q] \in {"rollback", "conflict"}
  BY <1>1, <1>2, <1>3, <1>5 DEF Learnt
<1>6. CASE pc'[q] \in {"commit", "committing", "ok"}
  BY <1>1, <1>2, <1>3, <1>6 DEF Learnt
<1>7. QED
  BY <1>4, <1>5, <1>6 DEF Learnt

\* A step that teaches its call something teaches it the truth.
LEMMA LearntStep ==
  ASSUME IInv, [Next]_vars, NEW q \in Calls
  PROVE  Learnt(q)'
<1> TypeOK /\ Shape(q) /\ Learnt(q) /\ NoInput \notin Inputs
  BY InputsAssumption DEF IInv
<1> USE DEF TypeOK
<1>1. ASSUME NEW o \in Calls, NEW i \in Inputs, Start(o, i)
      PROVE  Learnt(q)'
  BY <1>1, LearntIsKept DEF Start
<1>2. ASSUME NEW o \in Calls, Progress(o)
      PROVE  Learnt(q)'
  <2>1. CASE Begin(o)
    BY <2>1, LearntIsKept DEF Begin
  <2>2. CASE InsertRow(o)
    BY <2>2, LearntIsKept DEF InsertRow
  <2>3. CASE InsertConflicts(o)
    <3>1. CASE q = o
      <4>1. PICK p \in Arbiters(o) : txn[p] = "committed"
        BY <2>3 DEF InsertConflicts
      <4>2. p \in Calls /\ Accepted(p)' /\ row'[p].key = input'[o].key
        BY <2>3, <4>1 DEF InsertConflicts, Arbiters, LiveRow, Accepted
      <4>3. QED
        BY <2>3, <3>1, <4>2 DEF InsertConflicts, Learnt
    <3>2. CASE q # o
      BY <2>3, <3>2, LearntIsKept DEF InsertConflicts
    <3>3. QED
      BY <3>1, <3>2
  <2>4. CASE LookupFinds(o)
    <3>1. CASE q = o
      <4>1. PICK p \in Matches(o) : answer' = [answer EXCEPT ![o] = p]
        BY <2>4 DEF LookupFinds
      <4>2. p \in Calls /\ Accepted(p)' /\ row'[p] = input'[o]
        BY <2>4, <4>1 DEF LookupFinds, Matches, Accepted
      <4>3. QED
        BY <2>4, <3>1, <4>1, <4>2 DEF LookupFinds, Learnt
    <3>2. CASE q # o
      BY <2>4, <3>2, LearntIsKept DEF LookupFinds
    <3>3. QED
      BY <3>1, <3>2
  <2>5. CASE LookupMisses(o)
    <3>1. CASE q = o
      <4>1. PICK p \in Calls : Accepted(p) /\ row[p].key = input[o].key
        BY <2>5, <3>1 DEF LookupMisses, Learnt
      <4>2. row[p] # input[o]
        BY <2>5, <4>1 DEF LookupMisses, Matches
      <4>3. Accepted(p)' /\ row'[p].key = input'[o].key /\ row'[p] # input'[o]
        BY <2>5, <4>1, <4>2 DEF LookupMisses, Accepted
      <4>4. QED
        BY <2>5, <3>1, <4>3 DEF LookupMisses, Learnt
    <3>2. CASE q # o
      BY <2>5, <3>2, LearntIsKept DEF LookupMisses
    <3>3. QED
      BY <3>1, <3>2
  <2>6. CASE RecordEvent(o)
    <3>1. CASE q = o
      BY <2>6, <3>1 DEF RecordEvent, Learnt, Shape
    <3>2. CASE q # o
      BY <2>6, <3>2, LearntIsKept DEF RecordEvent
    <3>3. QED
      BY <3>1, <3>2
  <2>7. CASE SendCommit(o)
    BY <2>7, LearntIsKept DEF SendCommit
  <2>8. CASE ReturnOk(o)
    BY <2>8, LearntIsKept DEF ReturnOk
  <2>9. CASE ReturnConflict(o)
    BY <2>9, LearntIsKept DEF ReturnConflict
  <2>10. QED
    BY <1>2, <2>1, <2>2, <2>3, <2>4, <2>5, <2>6, <2>7, <2>8, <2>9 DEF Progress
<1>3. ASSUME NEW o \in Calls, Commit(o)
      PROVE  Learnt(q)'
  BY <1>3, LearntIsKept DEF Commit
<1>4. ASSUME NEW o \in Calls, Fail(o)
      PROVE  Learnt(q)'
  BY <1>4, LearntIsKept DEF Fail
<1>5. ASSUME NEW o \in Calls, Settle(o)
      PROVE  Learnt(q)'
  BY <1>5, LearntIsKept DEF Settle
<1>6. ASSUME NEW o \in Calls, LoseSession(o)
      PROVE  Learnt(q)'
  BY <1>6, LearntIsKept DEF LoseSession
<1>7. CASE UNCHANGED vars
  BY <1>7, LearntIsKept DEF vars
<1>8. QED
  BY <1>1, <1>2, <1>3, <1>4, <1>5, <1>6, <1>7 DEF Next

-----------------------------------------------------------------------------
\* The inductive invariant.
LEMMA Inductive == Spec => []IInv
<1>1. Init => IInv
  <2>1. SUFFICES ASSUME Init PROVE IInv
    OBVIOUS
  <2>2. TypeOK
    BY <2>1, TypeInit
  <2>3. \A o \in Calls : Shape(o) /\ Learnt(o)
    BY <2>1 DEF Init, Shape, Learnt
  <2>4. KeyLock
    BY <2>1 DEF Init, KeyLock, LiveRow
  <2>5. QED
    BY <2>2, <2>3, <2>4 DEF IInv
<1>2. IInv /\ [Next]_vars => IInv'
  <2>1. SUFFICES ASSUME IInv, [Next]_vars PROVE IInv'
    OBVIOUS
  <2>2. TypeOK'
    BY <2>1, TypeStep DEF IInv
  <2>3. \A o \in Calls : Shape(o)' /\ Learnt(o)'
    BY <2>1, ShapeStep, LearntStep
  <2>4. KeyLock'
    BY <2>1, KeyLockStep
  <2>5. QED
    BY <2>2, <2>3, <2>4 DEF IInv
<1>3. QED
  BY <1>1, <1>2, PTL DEF Spec

\* At most one accepted action per idempotency key.
THEOREM KeysAreUnique == Spec => []OneActionPerKey
<1>1. IInv => OneActionPerKey
  BY DEF IInv, KeyLock, LiveRow, Accepted, OneActionPerKey
<1>2. QED
  BY <1>1, Inductive, PTL

\* Each accepted action has exactly one durable event and nothing else has one.
THEOREM AuditIsExact == Spec => []AuditedExactlyOnce
<1>1. IInv => AuditedExactlyOnce
  <2>1. SUFFICES ASSUME IInv, NEW x \in Calls
                 PROVE  {o \in Calls : txn[o] = "committed" /\ event[o] = x}
                          = IF Accepted(x) THEN {x} ELSE {}
    BY DEF AuditedExactlyOnce
  <2>2. \A o \in Calls : txn[o] = "committed" =>
                          event[o] = IF row[o] # NoInput THEN o ELSE NoCall
    BY <2>1 DEF IInv, Shape
  <2>3. \A o \in Calls : txn[o] = "committed" /\ event[o] = x
                           <=> Accepted(x) /\ o = x
    BY <2>2, CallsAssumption DEF Accepted
  <2>4. QED
    BY <2>3
<1>2. QED
  BY <1>1, Inductive, PTL

\* An Ok names a durable action with the caller's own payload.
THEOREM OkIsSound == Spec => []OkNamesOwnAction
<1>1. IInv => OkNamesOwnAction
  <2>1. SUFFICES ASSUME IInv, NEW o \in Calls, pc[o] = "ok"
                 PROVE  /\ answer[o] \in Calls
                        /\ Accepted(answer[o])
                        /\ row[answer[o]] = input[o]
    BY DEF OkNamesOwnAction
  <2>2. Learnt(o) /\ Shape(o) /\ input[o] # NoInput
    BY <2>1 DEF IInv, Shape
  <2>3. QED
    BY <2>1, <2>2 DEF Learnt, Shape, Accepted
<1>2. QED
  BY <1>1, Inductive, PTL

\* A conflict is reported only against a durable action of another payload.
THEOREM ConflictIsSound == Spec => []ConflictIsReal
<1>1. IInv => ConflictIsReal
  BY DEF IInv, Learnt, ConflictIsReal
<1>2. QED
  BY <1>1, Inductive, PTL

-----------------------------------------------------------------------------
(* The refinement of AdminLedger.                                          *)

\* The outbox announces the accepted actions and no others.
AuditIsLedger == AuditTrail = AcceptedCalls

LEMMA AuditMatchesLedger == IInv => AuditIsLedger
<1>1. SUFFICES ASSUME IInv PROVE AuditTrail = AcceptedCalls
  BY DEF AuditIsLedger
<1>2. \A o \in Calls : txn[o] = "committed" =>
                        event[o] = IF row[o] # NoInput THEN o ELSE NoCall
  BY <1>1 DEF IInv, Shape
<1>3. \A o \in Calls : txn[o] = "committed" /\ event[o] # NoCall <=> Accepted(o)
  BY <1>2, CallsAssumption DEF Accepted
<1>4. \A o \in Calls : Accepted(o) => event[o] = o
  BY <1>2 DEF Accepted
<1>5. QED
  BY <1>3, <1>4 DEF AuditTrail, AcceptedCalls

\* A step that commits no row accepts nothing.
LEMMA LedgerKept ==
  ASSUME IInv, [Next]_vars, AuditIsLedger, AuditIsLedger',
         \A q \in Calls : Accepted(q)' => Accepted(q)
  PROVE  AcceptedCalls' = AcceptedCalls /\ AuditTrail' = AuditTrail
<1>1. \A q \in Calls : Accepted(q) => Accepted(q)'
  BY AcceptedIsStable
<1>2. AcceptedCalls' = AcceptedCalls
  BY <1>1 DEF AcceptedCalls
<1>3. QED
  BY <1>2 DEF AuditIsLedger

\* A call that returns gives an answer the ledger allows.
LEMMA ReturnAnswers ==
  ASSUME IInv, [Next]_vars, AuditIsLedger, AuditIsLedger',
         NEW o \in Calls, ReturnOk(o) \/ ReturnConflict(o) \/ Fail(o)
  PROVE  Ledger!Answer(o)
<1> TypeOK /\ Shape(o) /\ Learnt(o)
  BY DEF IInv
<1>1. \A q \in Calls : Accepted(q)' => Accepted(q)
  BY DEF ReturnOk, ReturnConflict, Fail, Accepted, TypeOK
<1>2. AcceptedCalls' = AcceptedCalls /\ AuditTrail' = AuditTrail
  BY <1>1, LedgerKept
<1>3. pc[o] \notin Returned /\ pc[o] # "ready" /\ input' = input
  BY DEF ReturnOk, ReturnConflict, Fail, Awaiting, Returned
<1>4. \A p \in Calls : Accepted(p) => row[p] = input[p]
  BY DEF IInv, Shape, Accepted
<1>5. input[o] # NoInput
  BY <1>3 DEF Shape
<1>6. [q \in Calls |-> Result(q)][o] = Ledger!NoResult
  BY <1>3 DEF Result, Returned, Ledger!NoResult, Ledger!Outcome
<1>7. \A q \in Calls : q # o => Result(q)' = Result(q)
  BY DEF ReturnOk, ReturnConflict, Fail, Result, TypeOK
<1>8. Result(o)' \in Ledger!Allowed(o)
  <2>1. CASE ReturnOk(o)
    <3>1. answer[o] \in AcceptedCalls /\ input[answer[o]] = input[o]
      BY <2>1, <1>4, <1>5 DEF ReturnOk, Learnt, Accepted, AcceptedCalls
    <3>2. Result(o)' = Ledger!Outcome("ok", answer[o])
      BY <2>1 DEF ReturnOk, Result, Returned, Ledger!Outcome, TypeOK
    <3>3. QED
      BY <3>1, <3>2 DEF Ledger!Allowed
  <2>2. CASE ReturnConflict(o)
    <3>1. PICK p \in Calls : /\ Accepted(p)
                             /\ row[p].key = input[o].key
                             /\ row[p] # input[o]
      BY <2>2 DEF ReturnConflict, Learnt
    <3>2. p \in AcceptedCalls /\ input[p].key = input[o].key /\ input[p] # input[o]
      BY <3>1, <1>4 DEF AcceptedCalls
    <3>3. Result(o)' = Ledger!Outcome("conflict", NoCall)
      BY <2>2 DEF ReturnConflict, Result, Returned, Ledger!Outcome, TypeOK
    <3>4. QED
      BY <3>2, <3>3 DEF Ledger!Allowed
  <2>3. CASE Fail(o)
    <3>1. Result(o)' = Ledger!Outcome("error", NoCall)
      BY <2>3 DEF Fail, Result, Returned, Ledger!Outcome, TypeOK
    <3>2. QED
      BY <3>1 DEF Ledger!Allowed
  <2>4. QED
    BY <2>1, <2>2, <2>3
<1>9. [q \in Calls |-> Result(q)]'
        = [[q \in Calls |-> Result(q)] EXCEPT ![o] = Result(o)']
  BY <1>7
<1>10. QED
  BY <1>2, <1>3, <1>5, <1>6, <1>8, <1>9 DEF Ledger!Answer

\* The COMMIT of a row is the ledger's acceptance; without a row it is
\* nothing.
LEMMA CommitAccepts ==
  ASSUME IInv, [Next]_vars, AuditIsLedger, AuditIsLedger',
         NEW o \in Calls, Commit(o)
  PROVE  Ledger!Accept(o) \/ UNCHANGED Ledger!vars
<1> TypeOK /\ Shape(o) /\ KeyLock
  BY DEF IInv
<1>1. input' = input /\ \A q \in Calls : Result(q)' = Result(q)
  BY DEF Commit, Result
<1>2. CASE row[o] # NoInput
  <2>1. \A q \in Calls : Accepted(q)' <=> Accepted(q) \/ q = o
    BY <1>2 DEF Commit, Accepted, TypeOK
  <2>2. AcceptedCalls' = AcceptedCalls \cup {o}
    BY <2>1 DEF AcceptedCalls
  <2>3. o \notin AcceptedCalls
    BY DEF Commit, AcceptedCalls, Accepted
  <2>4. input[o] = row[o] /\ input[o] # NoInput
    BY <1>2 DEF Shape
  <2>5. \A p \in AcceptedCalls : input[p].key # input[o].key
    <3>1. SUFFICES ASSUME NEW p \in Calls, Accepted(p), input[p].key = input[o].key
                   PROVE  FALSE
      BY DEF AcceptedCalls
    <3>2. row[p] = input[p]
      BY <3>1 DEF IInv, Shape, Accepted
    <3>3. LiveRow(p) /\ LiveRow(o)
      BY <3>1, <1>2 DEF Commit, LiveRow, Accepted
    <3>4. p = o
      BY <3>1, <3>2, <3>3, <2>4 DEF KeyLock
    <3>5. QED
      BY <3>1, <3>4, <2>3 DEF AcceptedCalls
  <2>6. AuditTrail' = AuditTrail \cup {o}
    BY <2>2 DEF AuditIsLedger
  <2>7. QED
    BY <1>1, <2>2, <2>3, <2>4, <2>5, <2>6 DEF Ledger!Accept
<1>3. CASE row[o] = NoInput
  <2>1. \A q \in Calls : Accepted(q)' => Accepted(q)
    BY <1>3 DEF Commit, Accepted, TypeOK
  <2>2. AcceptedCalls' = AcceptedCalls /\ AuditTrail' = AuditTrail
    BY <2>1, LedgerKept
  <2>3. QED
    BY <1>1, <2>2 DEF Ledger!vars
<1>4. QED
  BY <1>2, <1>3

\* Every step of the implementation is a step of the ledger or none.
LEMMA LedgerStep ==
  ASSUME IInv, [Next]_vars, AuditIsLedger, AuditIsLedger'
  PROVE  [Ledger!Next]_(Ledger!vars)
<1> TypeOK
  BY DEF IInv
<1>1. ASSUME NEW o \in Calls, NEW i \in Inputs, Start(o, i)
      PROVE  Ledger!Ask(o, i)
  <2>1. input[o] = NoInput /\ input' = [input EXCEPT ![o] = i]
    BY <1>1 DEF Start, IInv, Shape
  <2>2. \A q \in Calls : Result(q)' = Result(q)
    BY <1>1 DEF Start, Result, Returned, TypeOK
  <2>3. \A q \in Calls : Accepted(q)' => Accepted(q)
    BY <1>1 DEF Start, Accepted
  <2>4. AcceptedCalls' = AcceptedCalls /\ AuditTrail' = AuditTrail
    BY <2>3, LedgerKept
  <2>5. QED
    BY <2>1, <2>2, <2>4 DEF Ledger!Ask
<1>2. ASSUME NEW o \in Calls,
             \/ Begin(o) \/ InsertRow(o) \/ InsertConflicts(o)
             \/ LookupFinds(o) \/ LookupMisses(o) \/ RecordEvent(o)
             \/ SendCommit(o) \/ Settle(o) \/ LoseSession(o)
      PROVE  UNCHANGED Ledger!vars
  <2>1. input' = input
    BY <1>2 DEF Begin, InsertRow, InsertConflicts, LookupFinds, LookupMisses,
                RecordEvent, SendCommit, Settle, LoseSession
  <2>2. \A q \in Calls : Result(q)' = Result(q)
    BY <1>2 DEF Begin, InsertRow, InsertConflicts, LookupFinds, LookupMisses,
                RecordEvent, SendCommit, Settle, LoseSession, Result,
                Returned, TypeOK
  <2>3. \A q \in Calls : Accepted(q)' => Accepted(q)
    BY <1>2 DEF Begin, InsertRow, InsertConflicts, LookupFinds, LookupMisses,
                RecordEvent, SendCommit, Settle, LoseSession, Accepted, TypeOK
  <2>4. AcceptedCalls' = AcceptedCalls /\ AuditTrail' = AuditTrail
    BY <2>3, LedgerKept
  <2>5. QED
    BY <2>1, <2>2, <2>4 DEF Ledger!vars
<1>3. CASE UNCHANGED vars
  BY <1>3 DEF vars, Ledger!vars, AcceptedCalls, AuditTrail, Accepted, Result
<1>4. QED
  BY <1>1, <1>2, <1>3, ReturnAnswers, CommitAccepts
  DEF Next, Progress, Ledger!Next

\* record_action implements the ledger, whatever fails and in whatever order
\* the calls run.
THEOREM Refinement == Spec => LedgerSpec
<1>1. Init => Ledger!Init
  BY DEF Init, Ledger!Init, AcceptedCalls, AuditTrail, Accepted, Result,
         Returned, Ledger!NoResult, Ledger!Outcome
<1>2. IInv /\ [Next]_vars /\ AuditIsLedger /\ AuditIsLedger'
        => [Ledger!Next]_(Ledger!vars)
  BY LedgerStep
<1>3. QED
  BY <1>1, <1>2, Inductive, AuditMatchesLedger, PTL
  DEF Spec, LedgerSpec, Ledger!Spec
=============================================================================
