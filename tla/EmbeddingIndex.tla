--------------------------- MODULE EmbeddingIndex ---------------------------
(***************************************************************************)
(* The two PostgreSQL tables of the embedding contract                     *)
(* (embedding-contract/sql/postgres/desired.sql): the authoritative        *)
(* semantic_embeddings, called exact here, and the one-to-one              *)
(* semantic_embedding_index derived from it, called index.  Two writers    *)
(* derive it: the row trigger sync_semantic_embedding_index_4000, inside   *)
(* each application statement, and the operator's transaction              *)
(* reconcile-index.sql, statement by statement at READ COMMITTED.          *)
(*                                                                         *)
(* An application statement is one atomic step: it holds its exact row's   *)
(* lock from its first write to its commit, and touches one row.  Where it *)
(* would wait for a lock of the reconciliation it is not enabled.  A       *)
(* statement that the database rejects changes nothing and is left out.    *)
(*                                                                         *)
(* There is one reconciliation at a time: its first statement updates the  *)
(* rows of embedding_model_profiles, so a second one waits there until the *)
(* first has ended, before it reads anything below.                        *)
(*                                                                         *)
(* The schema plan may be applied again: desired.sql drops the trigger and *)
(* creates it in two statements, and nothing says that the plan runs in    *)
(* one transaction, so the application may write in between.               *)
(*                                                                         *)
(* Definitions marked faulty are mistakes this code could contain.  Next   *)
(* uses none; each breaks a property when it replaces the definition after *)
(* it.                                                                     *)
(***************************************************************************)
EXTENDS Naturals, FiniteSets

CONSTANTS
  Ids,       \* embedding_id
  Owners,    \* (tenant_id, purpose) pairs
  Spaces,    \* embedding_space: provider:model:dimensions:normalization
  Vectors,   \* (embedding, embedded_at) pairs
  Proj,      \* Proj[v]: their first 4,000 values as halfvec, with embedded_at
  NoSignal,  \* a projection whose l2_norm is not > 0
  NoRow,     \* no row
  Untouched  \* not written by the reconciliation

Scopes == [owner : Owners, space : Spaces]
ExactRows == [scope : Scopes, vector : Vectors]
IndexRows == [scope : Scopes, projection : {Proj[v] : v \in Vectors} \ {NoSignal}]

ASSUME IdsAssumption == IsFiniteSet(Ids)

ASSUME RowsAssumption ==
  /\ NoRow \notin ExactRows /\ NoRow \notin IndexRows
  /\ Untouched \notin IndexRows /\ Untouched # NoRow

VARIABLES
  exact,       \* the committed rows of semantic_embeddings
  index,       \* the committed rows of semantic_embedding_index
  phase,       \* the statement the reconciliation is at; "idle": none runs
  snap,        \* the exact rows its INSERT ... SELECT reads
  todo,        \* the ids of snap it has not written yet
  pending,     \* its own writes to the index, not committed yet
  exactCount,  \* exact_count of its DO block
  trigger,     \* semantic_embeddings_sync_index_4000 exists
  reconciled   \* a reconciliation has committed since it was created

appVars == <<exact, index>>
txnVars == <<phase, snap, todo, pending, exactCount>>
planVars == <<trigger, reconciled>>
vars == <<exact, index, phase, snap, todo, pending, exactCount, trigger, reconciled>>

\* The index row the trigger and the reconciliation derive from an exact row.
Derived(r) == [scope |-> r.scope, projection |-> Proj[r.vector]]

\* CHECK (l2_norm(indexed_embedding) > 0)
\* (The first form is faulty: a table without this CHECK.)
IndexableAlways(r) == TRUE
Indexable(r) == Proj[r.vector] # NoSignal

\* FOREIGN KEY (embedding_id, tenant_id, embedding_space, purpose)
References(i, r) == i # NoRow => r # NoRow /\ r.scope = i.scope

\* The index as the reconciliation's own statements see it.
OwnIndex == [id \in Ids |-> IF pending[id] = Untouched THEN index[id]
                                                       ELSE pending[id]]

Rows(table) == {id \in Ids : table[id] # NoRow}

Written(id) == pending[id] # Untouched

\* The reconciliation has checked the foreign key of the rows it inserted and
\* holds a key-share lock on the exact rows they reference.
KeyShared(id) == Written(id) /\ index[id] = NoRow /\ phase # "upsert"

Init ==
  /\ exact \in [Ids -> ExactRows \cup {NoRow}]   \* "handles existing rows"
  /\ index = [id \in Ids |-> NoRow]
  /\ phase = "idle"
  /\ snap = [id \in Ids |-> NoRow]
  /\ todo = {}
  /\ pending = [id \in Ids |-> Untouched]
  /\ exactCount = 0
  /\ trigger = TRUE
  /\ reconciled = FALSE
-----------------------------------------------------------------------------
(* The application.                                                        *)

\* A row is written, and the trigger derives its index row.
\* (The first form is faulty: a statement the trigger is not declared for.)
WriteUnsynced(id, r) ==
  /\ ~Written(id)
  /\ exact' = [exact EXCEPT ![id] = r]
  /\ UNCHANGED <<index, txnVars, planVars>>
Write(id, r) ==
  /\ ~Written(id)
  /\ trigger => Indexable(r)
  /\ exact' = [exact EXCEPT ![id] = r]
  /\ index' = IF trigger THEN [index EXCEPT ![id] = Derived(r)] ELSE index
  /\ UNCHANGED <<txnVars, planVars>>

Insert(id, r) ==
  /\ exact[id] = NoRow
  /\ Write(id, r)

\* UPDATE of embedding or embedded_at.
\* (The first form is faulty: a trigger without UPDATE OF embedding.)
UpdateVectorUnsynced(id, v) ==
  /\ exact[id] # NoRow
  /\ WriteUnsynced(id, [exact[id] EXCEPT !.vector = v])
UpdateVector(id, v) ==
  /\ exact[id] # NoRow
  /\ Write(id, [exact[id] EXCEPT !.vector = v])

\* UPDATE of tenant_id or purpose.  The foreign key has no ON UPDATE action,
\* and its check on the referenced table fires before the sync trigger
\* (PostgreSQL orders them by name): an indexed row cannot move.
MoveOwner(id, w) ==
  /\ exact[id] # NoRow
  /\ index[id] = NoRow
  /\ Write(id, [exact[id] EXCEPT !.scope.owner = w])

\* UPDATE of embedding_provider, model, original_dimensions or normalization:
\* embedding_space is generated from them, and the trigger is not declared for
\* them.  The foreign key rejects it for an indexed row.
ChangeSpace(id, s) ==
  /\ exact[id] # NoRow
  /\ index[id] = NoRow
  /\ ~KeyShared(id)
  /\ exact' = [exact EXCEPT ![id].scope.space = s]
  /\ UNCHANGED <<index, txnVars, planVars>>

\* DELETE, and ON DELETE CASCADE: it waits for a committed index row that the
\* reconciliation has rewritten, but does not see one it has only inserted.
Delete(id) ==
  /\ exact[id] # NoRow
  /\ ~KeyShared(id)
  /\ Written(id) => index[id] = NoRow
  /\ exact' = [exact EXCEPT ![id] = NoRow]
  /\ index' = [index EXCEPT ![id] = NoRow]
  /\ UNCHANGED <<txnVars, planVars>>

AppNext ==
  \E id \in Ids :
    \/ \E r \in ExactRows : Insert(id, r)
    \/ \E v \in Vectors : UpdateVector(id, v)
    \/ \E w \in Owners : MoveOwner(id, w)
    \/ \E s \in Spaces : ChangeSpace(id, s)
    \/ Delete(id)
-----------------------------------------------------------------------------
(* The schema plan.                                                        *)

\* DROP TRIGGER: its lock on semantic_embeddings waits for the end of a
\* reconciliation that has read the table.
DropTrigger ==
  /\ trigger
  /\ phase = "idle"
  /\ trigger' = FALSE
  /\ reconciled' = FALSE
  /\ UNCHANGED <<appVars, txnVars>>

CreateTrigger ==
  /\ ~trigger
  /\ trigger' = TRUE
  /\ UNCHANGED <<appVars, txnVars, reconciled>>
-----------------------------------------------------------------------------
(* The reconciliation.                                                     *)

\* (Faulty: INSERT ... SELECT of the rows that are not indexed yet.)
BeginReconcileMissingOnly ==
  /\ phase = "idle"
  /\ trigger
  /\ phase' = "upsert"
  /\ snap' = exact
  /\ todo' = Rows(exact) \ Rows(index)
  /\ UNCHANGED <<appVars, pending, exactCount, planVars>>

\* (Faulty: it does not wait for the schema plan.)
BeginReconcileAnyTime ==
  /\ phase = "idle"
  /\ phase' = "upsert"
  /\ snap' = exact
  /\ todo' = Rows(exact)
  /\ UNCHANGED <<appVars, pending, exactCount, planVars>>

\* BEGIN, the registry, and the snapshot of INSERT ... SELECT.  "Run this
\* product-owned step after the reviewed schema plan."
BeginReconcile ==
  /\ phase = "idle"
  /\ trigger
  /\ phase' = "upsert"
  /\ snap' = exact
  /\ todo' = Rows(exact)
  /\ UNCHANGED <<appVars, pending, exactCount, planVars>>

\* One row of the snapshot, inserted or put in the place of the newest
\* committed index row, whichever exact row that one was derived from.
Upsert(id) ==
  /\ phase = "upsert"
  /\ id \in todo
  /\ Indexable(snap[id])
  /\ todo' = todo \ {id}
  /\ pending' = [pending EXCEPT ![id] = Derived(snap[id])]
  /\ UNCHANGED <<appVars, phase, snap, exactCount, planVars>>

\* (Faulty: a foreign key that is not checked.)
EndUpsertUnchecked ==
  /\ phase = "upsert"
  /\ todo = {}
  /\ phase' = "orphans"
  /\ UNCHANGED <<appVars, snap, todo, pending, exactCount, planVars>>

\* (Faulty: REPEATABLE READ or above, where a row written since fails it.)
EndUpsertUnlessWritten ==
  /\ phase = "upsert"
  /\ todo = {}
  /\ exact = snap
  /\ phase' = "orphans"
  /\ UNCHANGED <<appVars, snap, todo, pending, exactCount, planVars>>

\* The end of the statement: the foreign key of every row it wrote holds
\* against the exact rows committed by now.
ForeignKeysHold == \A id \in Ids : Written(id) => References(pending[id], exact[id])

EndUpsert ==
  /\ phase = "upsert"
  /\ todo = {}
  /\ ForeignKeysHold
  /\ phase' = "orphans"
  /\ UNCHANGED <<appVars, snap, todo, pending, exactCount, planVars>>

DeleteOrphans ==
  /\ phase = "orphans"
  /\ pending' = [id \in Ids |-> IF id \in Rows(OwnIndex) \ Rows(exact)
                                  THEN NoRow ELSE pending[id]]
  /\ phase' = "countExact"
  /\ UNCHANGED <<appVars, snap, todo, exactCount, planVars>>

\* The two SELECT count(*) have a snapshot each.
CountExact ==
  /\ phase = "countExact"
  /\ exactCount' = Cardinality(Rows(exact))
  /\ phase' = "countIndex"
  /\ UNCHANGED <<appVars, snap, todo, pending, planVars>>

CountIndex ==
  /\ phase = "countIndex"
  /\ exactCount = Cardinality(Rows(OwnIndex))
  /\ phase' = "commit"
  /\ UNCHANGED <<appVars, snap, todo, pending, exactCount, planVars>>

EndTransaction ==
  /\ phase' = "idle"
  /\ snap' = [id \in Ids |-> NoRow]
  /\ todo' = {}
  /\ pending' = [id \in Ids |-> Untouched]
  /\ exactCount' = 0

\* RAISE EXCEPTION 'semantic embedding index reconciliation failed ...'
RaiseMismatch ==
  /\ phase = "countIndex"
  /\ exactCount # Cardinality(Rows(OwnIndex))
  /\ EndTransaction
  /\ UNCHANGED <<appVars, planVars>>

\* Any other error of a statement (a constraint its row violates, a deadlock
\* the database resolves) or the end of the session.
Abort ==
  /\ phase # "idle"
  /\ EndTransaction
  /\ UNCHANGED <<appVars, planVars>>

CommitReconcile ==
  /\ phase = "commit"
  /\ index' = OwnIndex
  /\ reconciled' = TRUE
  /\ EndTransaction
  /\ UNCHANGED <<exact, trigger>>

\* The first error a statement meets by itself: the index row of one exact row
\* is refused, or a row is gone from under a foreign key.
Refused ==
  /\ phase = "upsert"
  /\ (\E id \in todo : ~Indexable(snap[id])) \/ (todo = {} /\ ~ForeignKeysHold)
  /\ Abort

ReconcileNext ==
  \/ BeginReconcile
  \/ \E id \in Ids : Upsert(id)
  \/ EndUpsert
  \/ DeleteOrphans
  \/ CountExact
  \/ CountIndex
  \/ RaiseMismatch
  \/ Abort
  \/ CommitReconcile

Next == AppNext \/ DropTrigger \/ CreateTrigger \/ ReconcileNext

Spec == Init /\ [][Next]_vars

\* A reconciliation that has begun goes on, the database answers each of its
\* statements, and it is run again when it has ended.  Nobody has to write, and
\* the schema plan goes on once it has dropped the trigger.
Fairness ==
  /\ WF_vars(BeginReconcile)
  /\ WF_vars(\E id \in Ids : Upsert(id))
  /\ WF_vars(EndUpsert \/ DeleteOrphans \/ CountExact \/ CountIndex \/ CommitReconcile)
  /\ WF_vars(Refused \/ RaiseMismatch)
  /\ WF_vars(CreateTrigger)

FairSpec == Spec /\ Fairness
-----------------------------------------------------------------------------
\* Every variable has its type; the rows left to write are of the snapshot, and
\* whoever writes an index row, the trigger or the reconciliation, its projection
\* has a signal, so that the cosine distance to it is defined.
TypeOK ==
  /\ exact \in [Ids -> ExactRows \cup {NoRow}]
  /\ index \in [Ids -> IndexRows \cup {NoRow}]
  /\ phase \in {"idle", "upsert", "orphans", "countExact", "countIndex", "commit"}
  /\ snap \in [Ids -> ExactRows \cup {NoRow}]
  /\ todo \subseteq Rows(snap)
  /\ pending \in [Ids -> IndexRows \cup {NoRow, Untouched}]
  /\ exactCount \in 0 .. Cardinality(Ids)
  /\ trigger \in BOOLEAN
  /\ reconciled \in BOOLEAN

\* A search that joins index to exact never meets an index row of an exact
\* row that is gone, or that belongs to another tenant, space or purpose,
\* although the reconciliation writes rows it read some statements ago.
IndexReferencesExact == \A id \in Ids : References(index[id], exact[id])

\* Once a reconciliation has committed, every exact row is a search candidate
\* and stays one, whatever was written while it ran: the trigger covers the
\* rows its snapshot misses.  Rows written while the schema plan had dropped
\* the trigger wait for the next reconciliation.
ReconciledIsComplete == reconciled => Rows(exact) \subseteq Rows(index)

\* When the rows are counted there is nothing left to report: whatever was
\* inserted and deleted beside the statements before, the index the transaction
\* sees has exactly the rows it must have.  So the exception of the DO block
\* only ever reports that the two counts are of two moments.
NothingToReport ==
  phase \in {"countExact", "countIndex", "commit"} => Rows(OwnIndex) = Rows(exact)

\* 'semantic embedding index reconciliation failed' (reconcile-index.sql) is
\* raised only when the tables differ.  False of the code: a row inserted or
\* deleted between the two counts, index row included, raises it too.
MismatchIsReal == [][RaiseMismatch => Rows(OwnIndex) # Rows(exact)]_vars

\* The index row is the one the exact row derives.
Current(id) == index[id] # NoRow => exact[id] # NoRow /\ index[id] = Derived(exact[id])

\* The index "holds the deterministic first 4,000 values" of the exact vector
\* (embedding-contract/README.md), once a reconciliation has committed under the
\* trigger that is there now: what was written without a trigger is repaired by
\* then.  False of the code: the reconciliation puts the projection of its
\* snapshot over one that the trigger wrote later.
NoDrift == reconciled => \A id \in Ids : Current(id)

\* No application statement makes an index row stale, as long as there is a
\* trigger: it keeps every row current that a reconciliation leaves current.
TriggerKeepsCurrent ==
  [][AppNext /\ trigger => \A id \in Ids : Current(id) => Current(id)']_vars

\* A committed reconciliation leaves every row current that was not written
\* since its snapshot, also one that an earlier race had made stale.
ReconcileRepairs ==
  [][CommitReconcile =>
       \A id \in Ids : snap[id] # NoRow /\ exact[id] = snap[id]
                         => index'[id] = Derived(exact[id])]_vars

\* The set of rows, and what the index refers to them by, stay.
Steady ==
  /\ Rows(exact)' = Rows(exact)
  /\ \A id \in Rows(exact) : exact'[id].scope = exact[id].scope

\* The transaction ends although none of its statements failed.
Interrupted == Abort /\ ~(Refused \/ RaiseMismatch \/ CommitReconcile)

\* The reconciliation gets through although the application never stops to
\* update vectors: it is enough that rows stop to come, go and move, that each
\* has a projection, and that only its own statements end it.  Its count check
\* and its foreign key do not fail it for ever.
ReconcileConverges ==
  /\ <>[](\A id \in Rows(exact) : Indexable(exact[id]))
  /\ <>[][Steady /\ ~DropTrigger /\ ~Interrupted]_vars
  => []<><<CommitReconcile>>_vars
=============================================================================
