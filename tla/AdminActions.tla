---------------------------- MODULE AdminActions ----------------------------
(***************************************************************************)
(* AdminWriteContext::record_action (admin-orm/src/lib.rs), run by any     *)
(* number of concurrent callers against one PostgreSQL database at its     *)
(* default isolation level, READ COMMITTED.                                *)
(*                                                                         *)
(* A call, its fresh v4 uuid and its transaction are one value of Calls:   *)
(* record_action makes one uuid and opens one transaction.  A caller that  *)
(* retries makes another call with the same input.  pc[o] is the await the *)
(* call is suspended at ("ready": not called yet) or, at the end, what it  *)
(* returned.  The transaction has a state of its own because it outlives   *)
(* the call: when the future is dropped or its connection breaks, the      *)
(* database still holds the transaction's rows and locks until it learns   *)
(* of it, and a COMMIT already sent may still take effect.                 *)
(***************************************************************************)
EXTENDS Naturals, FiniteSets

CONSTANTS
  Calls,           \* calls of record_action, each named by its uuid
  Keys,            \* idempotency keys
  Actors,          \* (actor_subject, actor_session_id) pairs
  Commands,        \* (resource, action, reason) triples
  MaxConnections,  \* connections of the context's pool
  NoInput,         \* not an input
  NoCall           \* not a call

Inputs == [key : Keys, actor : Actors, command : Commands]

ASSUME CallsAssumption ==
  /\ IsFiniteSet(Calls)
  /\ NoCall \notin Calls

ASSUME InputsAssumption == NoInput \notin Inputs

ASSUME PoolAssumption == MaxConnections \in Nat \ {0}

VARIABLES
  pc,      \* pc[o]: where call o is suspended, or what it returned
  input,   \* input[o]: the AdminAction call o was given
  answer,  \* answer[o]: the local operation_id, once a row has supplied it
  txn,     \* txn[o]: the transaction of call o, seen by the database
  row,     \* row[o]: its insert into admin_action_requests, under id o
  event,   \* event[o]: the operation_id in its insert into the outbox
  conn     \* the calls whose transaction occupies a pool connection

vars == <<pc, input, answer, txn, row, event, conn>>

Awaiting == {"begin", "insert", "lookup", "outbox", "commit", "committing",
             "rollback"}

Returned == {"ok", "conflict", "error"}

-----------------------------------------------------------------------------
(* What a statement of one transaction sees of the others.                 *)

\* A row a unique index knows: committed, or of a transaction in progress.
LiveRow(o) == /\ row[o] # NoInput
              /\ txn[o] \in {"open", "committing", "committed"}

\* A row every new statement sees.
Accepted(o) == row[o] # NoInput /\ txn[o] = "committed"

\* ON CONFLICT (idempotency_key): the rows that decide the insert of call o.
\* (The first form is faulty: a SELECT before a plain insert sees no row in
\* progress.  Faulty forms are named in PROJECT.json's mutants; Next uses none.)
ArbitersCommittedOnly(o) == {p \in Calls : Accepted(p) /\ row[p].key = input[o].key}
Arbiters(o) == {p \in Calls : LiveRow(p) /\ row[p].key = input[o].key}

\* The SELECT on the key, the actor and the command together.
\* (The first form is faulty: it leaves the actor out.)
MatchesAnyActor(o) ==
  {p \in Calls : /\ Accepted(p)
                 /\ row[p].key = input[o].key
                 /\ row[p].command = input[o].command}
Matches(o) == {p \in Calls : Accepted(p) /\ row[p] = input[o]}

-----------------------------------------------------------------------------
(* Faulty variants of the actions: mistakes this code could contain.  Next  *)
(* uses none of them; put in the place of the action of the similar name,   *)
(* each breaks a property below.                                            *)

\* The pool opens a connection whenever it is asked.
BeginUnbounded(o) ==
  /\ pc[o] = "begin"
  /\ conn' = conn \cup {o}
  /\ txn' = [txn EXCEPT ![o] = "open"]
  /\ pc' = [pc EXCEPT ![o] = "insert"]
  /\ UNCHANGED <<input, answer, row, event>>

\* The insert does not wait for the transaction that holds the key.
InsertConflictsAtOnce(o) ==
  /\ pc[o] = "insert"
  /\ txn[o] = "open"
  /\ Arbiters(o) # {}
  /\ pc' = [pc EXCEPT ![o] = "lookup"]
  /\ UNCHANGED <<input, answer, txn, row, event, conn>>

\* The outbox insert without "if was_inserted".
LookupFindsThenOutbox(o) ==
  /\ pc[o] = "lookup"
  /\ txn[o] = "open"
  /\ \E p \in Matches(o) : answer' = [answer EXCEPT ![o] = p]
  /\ pc' = [pc EXCEPT ![o] = "outbox"]
  /\ UNCHANGED <<input, txn, row, event, conn>>

\* Ok(operation_id) before the COMMIT has answered.
ReturnOkEarly(o) ==
  /\ pc[o] = "committing"
  /\ pc' = [pc EXCEPT ![o] = "ok"]
  /\ conn' = conn \ {o}
  /\ UNCHANGED <<input, answer, txn, row, event>>

\* The conflict is returned with the connection still checked out.
ReturnConflictHolding(o) ==
  /\ pc[o] = "rollback"
  /\ txn[o] = "open"
  /\ txn' = [txn EXCEPT ![o] = "aborted"]
  /\ pc' = [pc EXCEPT ![o] = "conflict"]
  /\ UNCHANGED <<input, answer, row, event, conn>>

\* The conflict is not returned; the insert is tried again.
LookupMissesRetries(o) ==
  /\ pc[o] = "lookup"
  /\ txn[o] = "open"
  /\ Matches(o) = {}
  /\ pc' = [pc EXCEPT ![o] = "insert"]
  /\ UNCHANGED <<input, answer, txn, row, event, conn>>

-----------------------------------------------------------------------------
Init ==
  /\ pc = [o \in Calls |-> "ready"]
  /\ input = [o \in Calls |-> NoInput]
  /\ answer = [o \in Calls |-> NoCall]
  /\ txn = [o \in Calls |-> "none"]
  /\ row = [o \in Calls |-> NoInput]
  /\ event = [o \in Calls |-> NoCall]
  /\ conn = {}

\* record_action is called; it makes its uuid and asks the pool for a
\* connection.
Start(o, i) ==
  /\ pc[o] = "ready"
  /\ pc' = [pc EXCEPT ![o] = "begin"]
  /\ input' = [input EXCEPT ![o] = i]
  /\ UNCHANGED <<answer, txn, row, event, conn>>

\* A connection is free and BEGIN answers.
Begin(o) ==
  /\ pc[o] = "begin"
  /\ Cardinality(conn) < MaxConnections
  /\ conn' = conn \cup {o}
  /\ txn' = [txn EXCEPT ![o] = "open"]
  /\ pc' = [pc EXCEPT ![o] = "insert"]
  /\ UNCHANGED <<input, answer, row, event>>

\* INSERT ... RETURNING gives a row back: nobody holds the key.  The
\* statement waits while the key belongs to a transaction in progress.
InsertRow(o) ==
  /\ pc[o] = "insert"
  /\ txn[o] = "open"
  /\ Arbiters(o) = {}
  /\ row' = [row EXCEPT ![o] = input[o]]
  /\ answer' = [answer EXCEPT ![o] = o]
  /\ pc' = [pc EXCEPT ![o] = "outbox"]
  /\ UNCHANGED <<input, txn, event, conn>>

\* ON CONFLICT DO NOTHING gives no row back: the key is committed.
InsertConflicts(o) ==
  /\ pc[o] = "insert"
  /\ txn[o] = "open"
  /\ \E p \in Arbiters(o) : txn[p] = "committed"
  /\ pc' = [pc EXCEPT ![o] = "lookup"]
  /\ UNCHANGED <<input, answer, txn, row, event, conn>>

\* It finds the row of the same command: a replay, which writes nothing.
LookupFinds(o) ==
  /\ pc[o] = "lookup"
  /\ txn[o] = "open"
  /\ \E p \in Matches(o) : answer' = [answer EXCEPT ![o] = p]
  /\ pc' = [pc EXCEPT ![o] = "commit"]
  /\ UNCHANGED <<input, txn, row, event, conn>>

LookupMisses(o) ==
  /\ pc[o] = "lookup"
  /\ txn[o] = "open"
  /\ Matches(o) = {}
  /\ pc' = [pc EXCEPT ![o] = "rollback"]
  /\ UNCHANGED <<input, answer, txn, row, event, conn>>

\* if was_inserted: the outbox event, in the same transaction.
RecordEvent(o) ==
  /\ pc[o] = "outbox"
  /\ txn[o] = "open"
  /\ event' = [event EXCEPT ![o] = answer[o]]
  /\ pc' = [pc EXCEPT ![o] = "commit"]
  /\ UNCHANGED <<input, answer, txn, row, conn>>

SendCommit(o) ==
  /\ pc[o] = "commit"
  /\ txn[o] = "open"
  /\ txn' = [txn EXCEPT ![o] = "committing"]
  /\ pc' = [pc EXCEPT ![o] = "committing"]
  /\ UNCHANGED <<input, answer, row, event, conn>>

\* The database executes the COMMIT, whether or not anybody still waits.
Commit(o) ==
  /\ txn[o] = "committing"
  /\ txn' = [txn EXCEPT ![o] = "committed"]
  /\ UNCHANGED <<pc, input, answer, row, event, conn>>

\* The COMMIT's answer arrives: Ok(operation_id).
ReturnOk(o) ==
  /\ pc[o] = "committing"
  /\ txn[o] = "committed"
  /\ pc' = [pc EXCEPT ![o] = "ok"]
  /\ conn' = conn \ {o}
  /\ UNCHANGED <<input, answer, txn, row, event>>

\* The ROLLBACK's answer arrives: Err(IdempotencyConflict).
ReturnConflict(o) ==
  /\ pc[o] = "rollback"
  /\ txn[o] = "open"
  /\ txn' = [txn EXCEPT ![o] = "aborted"]
  /\ pc' = [pc EXCEPT ![o] = "conflict"]
  /\ conn' = conn \ {o}
  /\ UNCHANGED <<input, answer, row, event>>

\* Any await may end with Err(Database), a row may fail to decode, the caller
\* may drop the future, the process may die.  The pool keeps the connection
\* to roll it back later, or discards a broken one at once; in both cases the
\* database has not heard of it yet.  The statement that failed may have been
\* executed: that is the failure at the next await.
Fail(o) ==
  /\ pc[o] \in Awaiting
  /\ pc' = [pc EXCEPT ![o] = "error"]
  /\ conn' \in {conn, conn \ {o}}
  /\ UNCHANGED <<input, answer, txn, row, event>>

\* The pool cleans up after a call that is gone: the rollback queued by the
\* dropped transaction, or the end of the broken session at the database.
\* A COMMIT in flight is settled either way.
Settle(o) ==
  /\ pc[o] = "error"
  /\ txn[o] \in {"open", "committing"} \/ o \in conn
  /\ txn' = IF txn[o] \in {"open", "committing"}
              THEN [txn EXCEPT ![o] = "aborted"] ELSE txn
  /\ conn' = conn \ {o}
  /\ UNCHANGED <<pc, input, answer, row, event>>

\* The session of a call that is still waiting ends before its COMMIT is
\* executed: the database restarts, or terminates the backend.
LoseSession(o) ==
  /\ pc[o] \in Awaiting
  /\ txn[o] \in {"open", "committing"}
  /\ txn' = [txn EXCEPT ![o] = "aborted"]
  /\ UNCHANGED <<pc, input, answer, row, event, conn>>

Progress(o) ==
  \/ Begin(o)
  \/ InsertRow(o)
  \/ InsertConflicts(o)
  \/ LookupFinds(o)
  \/ LookupMisses(o)
  \/ RecordEvent(o)
  \/ SendCommit(o)
  \/ ReturnOk(o)
  \/ ReturnConflict(o)

Next ==
  \E o \in Calls :
    \/ \E i \in Inputs : Start(o, i)
    \/ Progress(o)
    \/ Commit(o)
    \/ Fail(o)
    \/ Settle(o)
    \/ LoseSession(o)

Spec == Init /\ [][Next]_vars

\* A wait that must end in an error: ACQUIRE_TIMEOUT bounds the wait for a
\* connection, and a session that ended answers with an error.
Expire(o) ==
  /\ pc[o] = "begin" \/ txn[o] = "aborted"
  /\ Fail(o)

\* Nobody has to call.  A call that is polled moves when the database can
\* answer; the database executes what it received; the pool cleans up.
Fairness ==
  \A o \in Calls :
    /\ WF_vars(Progress(o))
    /\ WF_vars(Expire(o))
    /\ WF_vars(Commit(o))
    /\ WF_vars(Settle(o))

FairSpec == Spec /\ Fairness
-----------------------------------------------------------------------------
\* Every variable has its type, and the pool never lends more connections
\* than MAX_CONNECTIONS allows.
TypeOK ==
  /\ pc \in [Calls -> {"ready"} \cup Awaiting \cup Returned]
  /\ input \in [Calls -> Inputs \cup {NoInput}]
  /\ answer \in [Calls -> Calls \cup {NoCall}]
  /\ txn \in [Calls -> {"none", "open", "committing", "committed", "aborted"}]
  /\ row \in [Calls -> Inputs \cup {NoInput}]
  /\ event \in [Calls -> Calls \cup {NoCall}]
  /\ conn \subseteq Calls
  /\ Cardinality(conn) <= MaxConnections

\* An idempotency key names at most one accepted action, whatever the
\* interleaving of the calls that carry it and however they fail.
OneActionPerKey ==
  \A o, p \in Calls :
    Accepted(o) /\ Accepted(p) /\ row[o].key = row[p].key => o = p

\* An accepted action has exactly one durable outbox event, nothing else has
\* one, and a replay adds none (README: "Each accepted action writes its
\* durable audit outbox event in the same transaction").
AuditedExactlyOnce ==
  \A x \in Calls :
    {o \in Calls : txn[o] = "committed" /\ event[o] = x}
      = IF Accepted(x) THEN {x} ELSE {}

\* An Ok names a durable action with exactly the caller's payload: nobody is
\* given another administrator's result, nor one that could still vanish.
OkNamesOwnAction ==
  \A o \in Calls :
    pc[o] = "ok" => /\ answer[o] \in Calls
                    /\ Accepted(answer[o])
                    /\ row[answer[o]] = input[o]

\* IdempotencyConflict is only returned against a durable action that holds
\* the key for another payload, never because of a call that then failed.
ConflictIsReal ==
  \A o \in Calls :
    pc[o] = "conflict" =>
      \E p \in Calls : /\ Accepted(p)
                       /\ row[p].key = input[o].key
                       /\ row[p] # input[o]

-----------------------------------------------------------------------------
(* The refinement: what the ledger's users see of the database.            *)

AcceptedCalls == {o \in Calls : Accepted(o)}

AuditTrail == {event[o] : o \in {p \in Calls : /\ txn[p] = "committed"
                                               /\ event[p] # NoCall}}

Result(o) == [outcome |-> IF pc[o] \in Returned THEN pc[o] ELSE "none",
              operation |-> IF pc[o] = "ok" THEN answer[o] ELSE NoCall]

Ledger == INSTANCE AdminLedger WITH
            asked <- input,
            accepted <- AcceptedCalls,
            audit <- AuditTrail,
            result <- [o \in Calls |-> Result(o)]

\* record_action implements the ledger: a command is accepted and audited in
\* one step, and every answer is one the ledger allows when it is given.
LedgerSpec == Ledger!Spec

\* Every call returns: a call that waits for the row of another one waits for
\* a transaction that ends, also when the other caller is gone, and a call
\* that waits for a connection times out.
EveryCallReturns ==
  \A o \in Calls : pc[o] \in Awaiting ~> pc[o] \in Returned

\* Every connection goes back to the pool, also those of failed calls.
EveryConnectionReturns ==
  \A o \in Calls : o \in conn ~> o \notin conn
=============================================================================
