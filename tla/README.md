# A formal model of fanwaave-lib-core

`fanwaave-lib-core` is the library the Fanwaave services share: a Rust crate, an
administrative database boundary (`admin-orm/`), the SQL of the embedding store
(`embedding-contract/`), a configuration resolver, a contact-delivery schema, a
lock catalog and validation records in several languages. These modules state
what its stateful parts do, TLC checks them on small instances, and TLAPS proves
what matters most for every instance.

    tlc -workers 2 -config MCAdminActions.cfg MCAdminActions
    tlapm AdminActionsProofs.tla

## Inventory

| Part | State | Operations | Interacts with | Module |
| --- | --- | --- | --- | --- |
| Admin action recording (`admin-orm/src/lib.rs`, `record_action`) | `admin_action_requests`, `admin_action_outbox`, one transaction per call, a pool of 8 connections | insert, look up, write the event, commit or roll back | PostgreSQL at READ COMMITTED; callers that retry | `AdminActions`, `AdminLedger` |
| Admin contexts (same file) | a database URL, a pool, the role's properties, the grants | connect with two probes, `ready`, `has_permission`, `dashboard_stats` | the DBA who changes roles and grants | `AdminAccess` |
| Embedding index (`desired.sql`, `reconcile-index.sql`) | `semantic_embeddings`, `semantic_embedding_index`, the reconciliation's transaction | application statements with their trigger; DROP and CREATE TRIGGER; BEGIN, upsert, delete orphans, two counts, COMMIT | each other, through row locks, a foreign key and snapshots | `EmbeddingIndex` |
| Embedding contract (`embedding_contract.rs`, `desired.sql` of both dialects) | three registries of models | validate, pad, insert, project | the trigger of the embedding index | `EmbeddingContract` |
| Process configuration (`fanwaave_config.rs`, `fanwaave_flags2env.rs`) | a parsed file, environment, argv, the flags contract | validate, audit, parse, resolve each binding | the flags-2-env runtime, which reads the contract file twice | `FanwaaveConfig` |
| Hybrid search (`hybrid-search.sql`, two dialects) | none | one query | reads both embedding tables | `HybridSearch` |
| Alert rules and match events (`desired.sql`) | two tables, one deduplication key | written from outside the repository | hybrid search gives the scores | not modelled |
| Contact delivery (`contact.rs`, `migrations/0002_...`) | jobs with leases, attempts, suppressions, provider events | claim, attempt, report, suppress: by a worker outside the repository | providers | not modelled |
| Lock catalog (`locks/`) | a catalog | build a key, in five languages | the lock library outside the repository | `LockKeys` |
| Validation SDKs (`validation/`, four languages, public and server) | a record in flight or in a service | decode, validate, keep, encode, send on | each other, as JSON | `RequestValidation` |
| Core configuration and pool, Supabase adapter, ORM projections, scripts | none over time | constructors, grants, declarations | | not modelled |

What is hard here is what happens between two statements of a database
transaction, in other transactions, and what happens when a statement's answer
never arrives. `PROJECT.json` lists these hazards at their lines, with the
properties that cover them.

What makes each part correct:

* recording: one accepted action per key, one audit event per accepted action,
  truthful answers whatever fails, no call and no connection stuck;
* index: no index row without its exact row, no exact row without an index row
  once a reconciliation has committed, no index row of an older vector, and a
  reconciliation that gets through beside writers;
* admission: what two probes of some sessions found holds for the sessions nobody
  probed, until somebody changes it; one database URL never serves a reader and a
  writer;
* contract: the registries agree; what the contract accepts can be stored;
* search: expired rows are never returned, and a live row is left out of an answer
  with room only when it was no candidate, in PostgreSQL also behind a worse one;
  where they read the words alike, the dialects rank alike;
* validation: a record is valid in all languages or in none, and what one service
  sends on is what it was sent;
* locks: the same entry and values give the same key in every runtime, unless the
  entry's name has an open brace; other ones give another;
* configuration: secrets come from the environment alone; argv over environment
  over default; a process that starts has everything it requires, and the roles
  its mode names.

## The modules

### AdminLedger and AdminActions

`AdminLedger` is what callers of `record_action` may rely on, with no database
in it: a set of accepted calls, an audit trail that grows in the same step, and
answers that the ledger justifies when they are given. A call may be accepted
after its caller was told "error": that is what an unanswered COMMIT can do.

`AdminActions` is the code. Between two awaits the function runs alone, so each
await is an action: `Begin`, `InsertRow` or `InsertConflicts`, `LookupFinds` or
`LookupMisses`, `RecordEvent`, `SendCommit`, `ReturnOk`, `ReturnConflict`. `pc[o]`
is the await call `o` is suspended at. The transaction `txn[o]` is a variable of
its own since it outlives the call: `Fail` ends the call at any await (an
error, a timeout, a dropped future, a dead process) and leaves the transaction
to `Settle`, the rollback by the pool or by the database; `Commit` is the
database executing a COMMIT it has received, even if nobody listens any more;
`LoseSession` ends a session under a call that waits. PostgreSQL is modelled
from how the code uses it: a unique index sees the rows of transactions in
progress, so an insert waits for them (`InsertRow` needs no live row with the
key, `InsertConflicts` a committed one), and a new statement at READ COMMITTED
sees what is committed. The schema of the two tables is not in the repository;
`idempotency_key` is unique, for otherwise PostgreSQL refuses the ON CONFLICT
clause. Nobody deletes or changes a recorded action here: `admin-orm` has no
such operation. One value of `Calls` is a call, its fresh uuid and its
transaction; a retry is another call with the same input.

### AdminAccess

`connect` of the two contexts: `Connect` is a target that `validate` passes, and
`ConnectRefuses` one that fails at one of its eight checks; `OpenSession` what the pool does in
`Database::connect` and whenever it needs another session, `ProbeRole` and
`ProbeMode` the two statements, each on any session of the pool, with their
refusals and `Fail` at each await; `LoseSession` is an idle or broken session.
`validate` looks at nothing but `sslmode` in the query of the URL and hands the URL
on, so the query, one of `Queries`, may name another database or role (`other`), which
the role probe refuses, or set by `options` what the sessions act as and whether they
are read-only. A session has these settings, and for what the URL does not set those
that its role had when it was opened; `catalog` is what
the role probe reads at that moment. A reader and a writer may therefore share a role,
but not a URL: that is what `PlanesAreSeparate` says. A query that names another host
or port is left out, since no probe asks for the server. `AlterRole`, `Promote` and
`Demote` are what others do meanwhile. `changed[c]` is a history variable: it says which aspects
have changed under a process since it called `connect`, and the properties are
about the aspects that have not. The seven powers of the role probe are one
Boolean, since the code folds them into one.

### EmbeddingIndex

`exact` and `index` are the committed rows of the two tables. An application
statement on one row and its trigger are one step, since the row stays locked
to the commit. The reconciliation is a step per statement, and its upsert one
per row, because it reads the exact rows in one snapshot and meets each index
row as it is when its turn comes; `pending` holds what it has written and not
committed. The locks it holds are guards of the application's actions
(`Written`, `KeyShared`). The foreign key without ON UPDATE is why `MoveOwner`
and `ChangeSpace` need a row that is not indexed yet, and why `EndUpsert` may
have to fail. `DropTrigger` and `CreateTrigger` are the two statements of
`desired.sql` that replace the trigger: nothing says that the plan runs them in
one transaction, so the application may write between them and its rows get no
index row (`Write` without a trigger), until a reconciliation, which runs "after the
reviewed schema plan" (the guard `trigger` of `BeginReconcile`). `reconciled` is a history
variable: a reconciliation has committed since the trigger was created. `Proj` maps a vector to its half-precision projection, with two
vectors that have one each and one that has none.

### EmbeddingContract

One model output goes through `from_model_output` and then into PostgreSQL or
CockroachDB. All lengths are the real ones, all three registries are written out, and of the
values only the class of the strongest among the first 4,000 and among the rest
is kept, in the six classes that `is_finite`, `f64::EPSILON`, `vector` and
`halfvec` tell apart.

### FanwaaveConfig

`resolve_fanwaave_config_from_argv_at`, from validation to the last binding.
Each check of the validation is a conjunct of `Valid`; `Audit` and `Parse` are
the two readings of the contract file, which `EditContract` may replace in
between; `ResolveBinding` and `ResolveFails` are the loop over the bindings.
A raw value is empty, a text only kind `string` accepts, or one each kind
accepts. The TOML parser (unknown fields, the one value of `precedence`) is left
out: it yields one of `Configs` or no configuration.

### HybridSearch

The two queries over the rows of one tenant, purpose and space, which is all that
their filters leave. `HalfvecCandidates` and `VectorCandidates` are the candidate
subqueries, as the set of candidate sets that ties permit; `ExactRerank` is the
join with its filter; `PostgresBefore` and `CockroachBefore` are the two ORDER BY,
and `Ranked` are the orders they permit (one, since ids differ).
The distance of a projection is independent of the exact score, so that a stale
or rounded projection is included. PostgreSQL reads the words of a query with
`websearch_to_tsquery` and scores by rank, CockroachDB with `plainto_tsquery` and
scores 1 or 0: with `or`, quotes or a minus they match different rows. A row therefore
has two values for the words, `lexical` (in quarters of the greatest score) and
`matches`, which need not agree; `SameRanking` is about tables where they do
(`WordsCountAlike`). For CockroachDB a partial match counts as a full one, so that
`LeftOutWasCrowdedOut` compares with worse rows in PostgreSQL only. Limits are constants, scaled down in the run.
That an approximate index returns other neighbours than the nearest is left out.

### LockKeys

Processes written in any of five runtimes build the key of an entry and lock it.
The name of an entry is a sequence of characters; `Cut` are its positions that the
loops of Rust and Gleam take out, `Matched` those that the regular expression of
Go, TypeScript and Dart matches, and `Filled` puts the values where a placeholder
begins. The loops themselves, `Scan` and `Replace`, are in `MCLockKeys`, since TLAPS
does not handle recursive operators: its assumption `LoopsAssumption` has TLC check
that they compute `Filled` for every name of up to five braces and letters. The lock
(one holder per key, no waiting where the entry says so) is the library's and
marked external, and so is what it accepts as a key: `InvalidLockKey` may end any
request. The two algorithms differ for a brace that is never closed: Rust
and Gleam drop the rest of the name, the others keep it. No entry of the catalog
has one; `MutualExclusion` excludes only that pair, and one name of the run has
such a brace.

### RequestValidation

One record on its way: `message` is in flight, `values` is what the last service
holds of it, `original` what its first sender had. A client, or a service that does not
use the SDKs, may send any record of any shape with anything that
`Inputs`, a constant, has, valid or not; a service sends what it has built and
validated (`ValidFields`, of what its language has: a Go service has an empty text
where another has none), or, by `Forward`, what it has accepted. The four groups
of declarations are written out one by one, as they are in the packages, so that
a bound that differs in one of them is a difference in the model. `Readable`,
`Native` and `Encoded` are what the libraries make of a field that is not there:
`Option` in Rust reads null as well as nothing and writes null; Go keeps an empty text
and omits it when it writes, and keeps a nil slice and writes null; Zod and Gleam take
an absent field but no null. A text is a number of characters of a script,
and `Unit` the length of one of them in the library's unit: bytes in Rust, runes in Go,
UTF-16 units in TypeScript, graphemes in Gleam. Gleam only decodes, so a record
that arrives there stays there. Of the payload of a command only its presence is
kept (`bare`): Rust and Gleam require it, TypeScript and Go do not. Go's server package
validates only, and the model takes its services to decode with `DecodeAndValidate` of the
public package.

Definitions marked faulty are mistakes that the code could contain; the next-state
relations use none of them. Each property is violated when one of them takes the
place of the definition that follows it (`PROJECT.json`, "mutants").

## Model checking

| Run | Instance | Result |
| --- | --- | --- |
| `MCAdminActions.cfg` | 3 calls, 2 keys, 2 actors, 2 commands, 2 connections; symmetry broken by hand | 232,626 states; type, four invariants and the refinement of `AdminLedger` hold; every call returns, every connection comes back |
| `MCEmbeddingIndex.cfg` | 2 rows, 2 owners, 2 spaces, 3 vectors | 109,341 states; seven properties hold |
| `MCEmbeddingIndexDrift.cfg` | the same | `NoDrift` is violated, see below |
| `MCEmbeddingIndexCount.cfg` | the same | `MismatchIsReal` is violated, see below |
| `MCEmbeddingContract.cfg` | all providers and models, 22 lengths around every limit | 36,112 states; four properties hold |
| `MCEmbeddingContractAccepted.cfg` | the same | `AcceptedIsStored` is violated, see below |
| `MCAdminAccess.cfg` | 1 web server, 1 API, 1 role, 2 sessions each, all settings of the role, 5 queries of a URL; sessions symmetric | 2,275,178 states; four properties hold |
| `MCAdminAccessWriter.cfg` | the same | `WriterCanWrite` is violated, see below |
| `MCHybridSearch.cfg` | all tables of up to 3 rows, 4 limits; candidates at most 3, results at most 2, a 3-bit integer, words that match or not in each dialect | 1,216,713 states; three properties hold |
| `MCLockKeys.cfg` | 2 processes, 5 runtimes, the catalog and 4 names with odd braces, one of them open, up to 2 values; symmetric | 154,950 states; two properties hold |
| `MCFanwaaveConfig.cfg` | 78 configurations that each vary one part of a valid one, all environments and argv over two keys, three contract files | 154,176 states; five properties hold |
| `MCRequestValidation.cfg` | 6 records, 4 languages, each field at, beside and between its bounds in 4 scripts, absent or null, sent by anyone | 28,542 states; four properties hold |

Why these bounds are enough to be interesting. Three calls are a holder of a
key, one that waits for it and one that comes later, and three against two
connections fill the pool; two keys, actors and commands make replays,
conflicts and unrelated calls. More calls only repeat the pairs that meet in
the unique index, and the proofs below do not depend on the number. In
`EmbeddingIndex` the rows meet only in the counts and in the order of the
upsert, for which two are enough; nothing counts the reconciliations, so a
run may hold any number of them. In `AdminAccess` two
sessions are a probed one and one that nobody probed, and one role is the case
where a reader and a writer can be confused; the five queries set nothing, the mode
either way, another database or user, and what the sessions act as. Three rows in `HybridSearch` are a
returned one, one that is left out and an expired one that takes its place, with
limits scaled so that each of the floor, the ceiling and the overflow is met. The
lengths of `EmbeddingContract` are each
limit and its neighbours. In `FanwaaveConfig` bindings meet in pairs (equal names,
equal keys), and each is resolved by itself.

In `RequestValidation` fields are checked independently of each other, so one is
varied at a time; its lengths include half and a quarter of the maximum, where the
units of the four libraries begin to disagree.

The calls, keys, actors and commands of `AdminActions` are interchangeable. TLC's
SYMMETRY is unsound for liveness, so `MCAdminActions` lets the calls take only one
representative of each way to distribute inputs over them, up to renaming;
the fair actions are those of `AdminActions`.

No run bounds a counter: the state spaces are finite because the constants are.

Fairness (`FairSpec` of `AdminActions`). A call that can take its next step takes
it: it is a future that its caller polls until it is ready or dropped, and a
drop is `Fail`. The wait for a connection ends, by `ACQUIRE_TIMEOUT` (3 s), and so
does that for the answer of a session that is gone (`Expire`). The database
executes a COMMIT it has received, and the pool or the database rolls back what a
dead call left (`Settle`). Nobody must call (`Start`), fail or lose a session.
All of it is weak fairness: each step stays enabled until it is taken or its
reason has gone.

Fairness (`FairSpec` of `EmbeddingIndex`). The reconciliation is run again when it
has ended, the database answers each of its statements and reports each error,
and a schema plan that has dropped the trigger goes on to create it. Nobody has to
write, and no lock of the reconciliation waits for ever, since an application
statement commits by itself. `ReconcileConverges` needs no pause of the application: its
antecedent is only that rows stop to come, go and move, that each row is indexable, and
that sessions are not interrupted for ever. With a snapshot that fails on rows
written since (`EndUpsertUnlessWritten`, what REPEATABLE READ would do) it does not
hold.

### What the runs refute

* `NoDrift`: after a reconciliation, and under the trigger all the time, an index
  row is that of an older vector. The next reconciliation takes its snapshot, the
  application writes a newer vector and the trigger its projection, the reconciliation
  overwrites that with what its snapshot derives and commits. Searches then choose
  candidates by an old vector until the row is written or reconciled again.
  `ReconcileRepairs` shows that a later reconciliation does repair it, unless
  the row is written under that one too.
* `MismatchIsReal`: a row is inserted between the two counts; the reconciliation
  reports a failure and rolls back though nothing was wrong. Nothing is lost but
  the work. `NothingToReport` is the other half: at the counts the transaction sees exactly
  the rows it must, so the check never reports anything else.
* `AcceptedIsStored`: a vector that `from_model_output` accepts is refused by the
  database, when its first 4,000 values have no half-precision projection with
  signal, or its provider is `custom`, which has no profile row.
  `RefusedForProjection` shows that for registered models there is no other reason.

* `WriterCanWrite`: an API is admitted with a role that has no INSERT on
  `admin_action_requests`: `connect` looks at the transaction mode only. The
  comment of `AdminReadContext::connect`, an error when the credential can write,
  has the same limit: on a standby every credential is read-only, until the
  promotion; `ModeIsProved` says for how long the proof holds.

## Proofs

`AdminActionsProofs` proves, for any set of calls, keys, actors and commands and
any size of the pool: `TypeCorrect`, `KeysAreUnique`, `AuditIsExact`, `OkIsSound`,
`ConflictIsSound` and `Refinement`, that is, each safety property of the first
run, with the implementation of `AdminLedger`. The assumptions are those of
`AdminActions`: `Calls` is finite (a pool counts them), `NoCall` and `NoInput` are
none of the values they stand in for, and the pool has at least one connection.

None of these is inductive by itself. The invariant `IInv` adds to the types:

* `Shape`: what a call's place in the function says of its transaction, its row,
  its event and its answer: for instance, a row in a transaction that may commit
  is the call's own input, and before the COMMIT its event is there;
* `KeyLock`: two rows that the unique index knows have different keys, also when
  neither is committed yet. Uniqueness among committed rows alone is not
  inductive: a COMMIT adds a row without looking;
* `Learnt`: what a call has learnt from a SELECT stays true after its statement,
  since committed rows stay.

The refinement is proved step by step: `Start` maps to `Ask`, `Commit` to `Accept`
(`KeyLock` gives the guard), the three returns to `Answer`, everything else to
a stutter.

`AdminAccessProofs` proves the four invariants of the access run for any processes,
roles and pool size (`TypeCorrect`, `RoleProbeSuffices`, `ModeProbeSuffices`,
`SeparatePlanes`), whatever their URLs set, from the assumptions that no process is both
reader and writer and that `NoRole`, `NoQuery` and `NoSession` are none of the values they
stand in for. A probe of one session says nothing of another, so
the properties are not inductive; the link is the catalog. `Identity` and `Mode`
say that while an aspect is unchanged, every session has the settings that one opened
now would have, and past a probe the catalog itself is known to be good.

`EmbeddingIndexProofs` proves, for any rows, owners, spaces, vectors and projections,
the six safety properties of the index run: `TypeCorrect`, `IndexRefers`,
`ReconciledForGood`, `CheckFindsNothing`, `TriggerIsFaithful` and
`ReconciliationRepairs`. It assumes that there are finitely many ids and that the
two marks for "no row" and "not written" are no rows. The invariant follows the
transaction:

* `Progress`: it has a trigger beside it, since DROP TRIGGER waits for it;
* `Covered`: each exact row is still to be written, or indexed by the transaction or
  the trigger. Without the trigger a row inserted after the snapshot would escape;
* `Upserted`: what it wrote of its snapshot stays, except for the rows it found
  deleted;
* `KeysHeld`, `NoOrphans`: the foreign keys checked at the end of the upsert, and
  the absence of orphans after their deletion, outlive later application
  statements. That is what the row locks are for (`Written`, `KeyShared`).

`Statements` reduces the application to three cases: a whole row is written, its
space changes, or it is deleted.

`FanwaaveConfigProofs` proves the five invariants of the configuration run for files
with any number of bindings, any environment, argv and contracts: `TypeCorrect`,
`SecretsAreSafe`, `MergeIsFollowed`, `ReadyHasEverything` and `RolesFitMode`. It assumes
what the parsers guarantee (`ConfigsAssumption`, `ContractsAssumption`) and that `None`
is no value. The properties speak of a ready process, the steps of one binding; the
invariant ties them together:

* `Staged`: past the start the file is valid, argv was parsed before the first binding
  is resolved, and a ready process has resolved the last;
* `ResolvedSoFar`: the bindings before `next` passed their checks and have what
  `Lookup` finds, and no other name has a value. A binding resolved later leaves
  these alone only because the names of a valid file differ.

`EmbeddingContractProofs` proves the four invariants of the contract run for every
length, where TLC checks those around each limit: `TypeCorrect`, `LengthsAreProfiled`,
`NoFalseRejection` and `OnlyProjectionRefuses`. The invariant `Reasons` says what each
result tells of the output. The three registries meet in `ProfilesAgree` (the Rust
registry has the profile of every database row), `SameProfiles` (the two databases
have the same rows) and `RustProfiles` (the Rust side knows no other model but those
of provider custom): a row added to one of the three and not to the others breaks a
lemma.

`HybridSearchProofs` proves the three invariants of the search run for tables of any
size, any scores and distances, and any positive bounds on candidates and answers:
`TypeCorrect`, `OnlyCrowdingLeavesOut` and `DialectsRankAlike`. The
invariant `Explained` says that an answer is the beginning of a ranking of some
candidates. `NearestFacts` and `RankedFacts` say what a choice among ties and an
ORDER BY leave open; `PostgresScore` and `CockroachScore` relate the two queries'
arithmetic to `Score`, the second only under `WordsCountAlike`. That a finite set has a ranking at all is induction, which
the provers cannot do; if one had none, `SearchPostgres` could not be taken, and
TLC shows that it can.

`LockKeysProofs` proves the two invariants of the lock run for any processes and
values and, but for open braces across the two algorithms, for entries of any name:
`LocksExclude` and `LocksTellApart`. The invariant is `Exclusive`: no two processes hold one key. The rest is about keys.
`CutIsMatched` is why five languages may use two algorithms: where every brace is
closed both take out the same positions. `CatalogKey` computes the keys of the catalog;
`DomainOfKey` reads the entry off its second element and `ValueOfKey` the value off
what follows. `FlattenSeq` recurses over its argument, so its result is computed for
the lengths that the names of the catalog have.

`RequestValidationProofs` proves the four invariants of the validation run for any
`Inputs`: texts, lists and integers of any size, in all fields at once, where TLC
varies one field at a time. The one assumption is their type, and that an IP address
has 2 to 45 characters. `SameDeclarations` is the heart of `LanguagesAgree`: the 24
declarations are six, so a bound that is changed in one package breaks it. `VerdictIsMeant`
then gives one verdict on a field for all libraries, where they read it alike. The
invariant carries what one service knows over to the next: `HeldBy` (what is held was
found valid), `SentBy` (what is sent encodes that) and `AllSurvive`; `ReceivedFine`
is the step from one language to another.

Only model-checked: the three liveness properties (TLAPS does not prove liveness
under fairness), and that the recursive loops of the lock packages compute `Filled`.

## Plan

1. `HybridSearch`: a run with more rows than candidates of each kind.
2. `AdminAccess`: URLs that name another host, with a second server.
3. `RequestValidation`: values of another JSON type than the declared one.

## Not modelled, and why

Contact delivery: `migrations/0002_contact_delivery.sql` and `contact.rs` declare
jobs, leases, attempts and their states, but no code here changes one; the
transitions belong to a worker outside the repository. The same is true of alert
rules and match events. `ready`, `has_permission` and `dashboard_stats` are single
reads.

Files without behaviour over time: declarations of rows (`embedding_orm_projection.rs`),
grants and one-shot assertions (`supabase/`,
`preflight.sql`), constructors (`config.rs`, `connection.rs`), build scripts and CI.
The parsers of single values, TOML, URLs, the HNSW index and what a distance is
are abstracted. Row-level security is left out of `EmbeddingIndex`: the
reconciliation turns it off and the application's statements name their tenant.
