----------------------------- MODULE AdminAccess -----------------------------
(***************************************************************************)
(* AdminReadContext::connect and AdminWriteContext::connect                *)
(* (admin-orm/src/lib.rs): how a process is admitted to the administrative *)
(* database, and what its pool does afterwards.                            *)
(*                                                                         *)
(* connect checks the target, opens a pool, and runs two probes: one of    *)
(* the role, one of the read-only mode.  Each is a statement of its own,   *)
(* on any session of the pool, and the pool opens further sessions, which  *)
(* nobody probes, as long as the process lives.  A session takes over the  *)
(* settings of its role when it is opened, except those that the query of  *)
(* the URL overrides; the privileges of the role are read from the catalog *)
(* by each probe.  Meanwhile an administrator may alter the role, and the  *)
(* server may enter or leave recovery.                                     *)
(*                                                                         *)
(* Of the query validate looks at sslmode only, and hands the URL on as it *)
(* is.  The driver takes dbname, user and options from the query: these    *)
(* are modelled.  A URL whose query names another host or port is left     *)
(* out: the model has one server.                                          *)
(***************************************************************************)
CONSTANTS
  ReadContexts,   \* processes that ask for an AdminReadContext (web servers)
  WriteContexts,  \* processes that ask for an AdminWriteContext (APIs)
  Roles,          \* database roles a process may be configured with
  Queries,        \* queries of the database URLs, see QueryRecords
  Slots,          \* places for a session in a pool
  NoRole,         \* not a role
  NoQuery,        \* not the query of a URL
  NoSession       \* not a session

Contexts == ReadContexts \cup WriteContexts

ASSUME ContextsAssumption == ReadContexts \cap WriteContexts = {}

ASSUME RolesAssumption == NoRole \notin Roles

VARIABLES
  at,        \* at[c]: where connect of c is, or what it returned
  role,      \* role[c]: the expected_role of c's configuration
  query,     \* query[c]: what the query of c's database_url sets
  pool,      \* pool[c]: the sessions of c's pool
  catalog,   \* catalog[r]: what the database knows of role r
  recovery,  \* the server is in recovery (a standby)
  changed    \* changed[c]: what the database changed under c since its connect

vars == <<at, role, query, pool, catalog, recovery, changed>>

\* What a role's rows in the catalogs say.  safe: it exists and has none of
\* the seven powers the probe asks for.  inserts: it may insert into the
\* tables.  assumes and readOnly are settings of the role: its sessions act
\* as another role, its sessions default to read-only transactions.
RoleRecords ==
  [safe : BOOLEAN, inserts : BOOLEAN, assumes : BOOLEAN, readOnly : BOOLEAN]

\* The query of a URL.  other: dbname names another database than the path, or
\* user another role than the user part.  assumes and readOnly: what options
\* sets for each session (-c role=..., -c default_transaction_read_only=...).
Settings == {"unset", "on", "off"}

QueryRecords == [other : BOOLEAN, assumes : Settings, readOnly : Settings]

ASSUME QueriesAssumption == Queries \subseteq QueryRecords /\ NoQuery \notin Queries

\* The settings that a session has taken over.
SessionRecords == [assumes : BOOLEAN, readOnly : BOOLEAN]

ASSUME SessionsAssumption == NoSession \notin SessionRecords

\* What validate compares or demands of a target.
TargetFaults == {"scheme", "host", "username", "fragment", "expected_database",
                 "expected_role", "path", "sslmode"}

Aspects == {"identity", "mode"}

Connecting == {"opening", "role", "mode"}

Open == Connecting \cup {"admitted"}

Errors == {"InvalidDatabaseTarget", "Database", "Decode", "UnsafeRuntimeRole",
           "ReadCredentialWritable", "WriteCredentialReadOnly"}

-----------------------------------------------------------------------------
Sessions(c) == {s \in Slots : pool[c][s] # NoSession}

NoSessions == [s \in Slots |-> NoSession]

\* A setting of the URL comes before the setting of the role.
Effective(setting, default) ==
  IF setting = "unset" THEN default ELSE setting = "on"

\* validate_runtime_role on a session of c: current_user and current_database()
\* are the expected ones, and the role's row has none of the powers.
\* (The first form is faulty: it looks at the role that logged in.)
RoleAcceptedOfLogin(c, session) == ~query[c].other /\ catalog[role[c]].safe
RoleAccepted(c, session) ==
  /\ ~query[c].other
  /\ ~session.assumes
  /\ catalog[role[c]].safe

\* PostgreSQL lets no transaction of the session write.
ReadOnly(session) == session.readOnly \/ recovery

\* SHOW transaction_read_only.
\* (The first form is faulty: it asks for the default of the session only.)
TransactionReadOnlyByDefault(session) == session.readOnly
TransactionReadOnly(session) == ReadOnly(session)

\* (The first form is faulty: a writer is not refused a read-only session.)
ModeRequiredOfReadersOnly(c, session) ==
  c \in ReadContexts => TransactionReadOnly(session)
ModeAccepted(c, session) ==
  TransactionReadOnly(session) <=> c \in ReadContexts

\* connect returns an error or the caller drops its context: the configuration
\* goes, and the pool with the DatabaseConnection.
Forget(c, result) ==
  /\ at' = [at EXCEPT ![c] = result]
  /\ role' = [role EXCEPT ![c] = NoRole]
  /\ query' = [query EXCEPT ![c] = NoQuery]
  /\ changed' = [changed EXCEPT ![c] = {}]

\* (The first form is faulty: the error keeps the connection.)
ReturnHolding(c, result) == Forget(c, result) /\ UNCHANGED pool
Return(c, result) ==
  /\ Forget(c, result)
  /\ pool' = [pool EXCEPT ![c] = NoSessions]

-----------------------------------------------------------------------------
Init ==
  /\ at = [c \in Contexts |-> "stopped"]
  /\ role = [c \in Contexts |-> NoRole]
  /\ query = [c \in Contexts |-> NoQuery]
  /\ pool = [c \in Contexts |-> NoSessions]
  /\ catalog \in [Roles -> RoleRecords]
  /\ recovery \in BOOLEAN
  /\ changed = [c \in Contexts |-> {}]

\* A process starts and calls connect; validate accepts its target ...
Connect(c) ==
  /\ at[c] = "stopped"
  /\ at' = [at EXCEPT ![c] = "opening"]
  /\ \E r \in Roles : role' = [role EXCEPT ![c] = r]
  /\ \E q \in Queries : query' = [query EXCEPT ![c] = q]
  /\ UNCHANGED <<pool, catalog, recovery, changed>>

\* ... or not.
ConnectRefuses(c) ==
  /\ at[c] = "stopped"
  /\ \E target \in TargetFaults : at' = [at EXCEPT ![c] = "InvalidDatabaseTarget"]
  /\ UNCHANGED <<role, query, pool, catalog, recovery, changed>>

\* The pool opens a session: the first one in Database::connect, then whenever
\* a statement finds none that is free.
OpenSession(c, s) ==
  /\ at[c] \in Open
  /\ pool[c][s] = NoSession
  /\ pool' = [pool EXCEPT ![c][s] =
       [assumes |-> Effective(query[c].assumes, catalog[role[c]].assumes),
        readOnly |-> Effective(query[c].readOnly, catalog[role[c]].readOnly)]]
  /\ at' = [at EXCEPT ![c] = IF @ = "opening" THEN "role" ELSE @]
  /\ UNCHANGED <<role, query, catalog, recovery, changed>>

\* validate_runtime_role, on any session of the pool.
ProbeRole(c, s) ==
  /\ at[c] = "role"
  /\ s \in Sessions(c)
  /\ RoleAccepted(c, pool[c][s])
  /\ at' = [at EXCEPT ![c] = "mode"]
  /\ UNCHANGED <<role, query, pool, catalog, recovery, changed>>

ProbeRoleRefuses(c, s) ==
  /\ at[c] = "role"
  /\ s \in Sessions(c)
  /\ ~RoleAccepted(c, pool[c][s])
  /\ Return(c, "UnsafeRuntimeRole")
  /\ UNCHANGED <<catalog, recovery>>

\* transaction_read_only, on any session of the pool: the caller gets its
\* context.
ProbeMode(c, s) ==
  /\ at[c] = "mode"
  /\ s \in Sessions(c)
  /\ ModeAccepted(c, pool[c][s])
  /\ at' = [at EXCEPT ![c] = "admitted"]
  /\ UNCHANGED <<role, query, pool, catalog, recovery, changed>>

ProbeModeRefuses(c, s) ==
  /\ at[c] = "mode"
  /\ s \in Sessions(c)
  /\ ~ModeAccepted(c, pool[c][s])
  /\ Return(c, IF c \in ReadContexts THEN "ReadCredentialWritable"
                                     ELSE "WriteCredentialReadOnly")
  /\ UNCHANGED <<catalog, recovery>>

\* An await of connect fails: no session in time, a broken session, or, of a
\* probe, an answer that cannot be decoded.
Fail(c) ==
  /\ \/ at[c] \in Connecting /\ Return(c, "Database")
     \/ at[c] \in {"role", "mode"} /\ Return(c, "Decode")
  /\ UNCHANGED <<catalog, recovery>>

\* A session ends: idle for too long, or broken.
LoseSession(c, s) ==
  /\ s \in Sessions(c)
  /\ pool' = [pool EXCEPT ![c][s] = NoSession]
  /\ UNCHANGED <<at, role, query, catalog, recovery, changed>>

\* The process drops its context, or ends.
Stop(c) ==
  /\ at[c] \in Errors \cup {"admitted"}
  /\ Return(c, "stopped")
  /\ UNCHANGED <<catalog, recovery>>

-----------------------------------------------------------------------------
(* What others do to the database.                                          *)

\* Which probe looks at a part of a role's record.
AspectOf == [safe |-> "identity", assumes |-> "identity", readOnly |-> "mode"]

\* ALTER ROLE.  (No GRANT or REVOKE on the tables: WriterCanWrite is refuted
\* without one, and nothing else here reads inserts.)
AlterRole(r) ==
  \E part \in DOMAIN AspectOf :
    /\ catalog' = [catalog EXCEPT ![r][part] = ~@]
    /\ changed' = [c \in Contexts |->
         IF at[c] \in Open /\ role[c] = r
         THEN changed[c] \cup {AspectOf[part]} ELSE changed[c]]
    /\ UNCHANGED <<at, role, query, pool, recovery>>

ModeChangesForAll ==
  changed' = [c \in Contexts |->
    IF at[c] \in Open THEN changed[c] \cup {"mode"} ELSE changed[c]]

\* A standby becomes the primary; its sessions live on.
Promote ==
  /\ recovery
  /\ recovery' = FALSE
  /\ ModeChangesForAll
  /\ UNCHANGED <<at, role, query, pool, catalog>>

\* A server restarts as a standby: every session is lost.
Demote ==
  /\ ~recovery
  /\ recovery' = TRUE
  /\ pool' = [c \in Contexts |-> NoSessions]
  /\ ModeChangesForAll
  /\ UNCHANGED <<at, role, query, catalog>>

Next ==
  \/ \E c \in Contexts : Connect(c) \/ ConnectRefuses(c) \/ Fail(c) \/ Stop(c)
  \/ \E c \in Contexts, s \in Slots :
       \/ OpenSession(c, s) \/ LoseSession(c, s)
       \/ ProbeRole(c, s) \/ ProbeRoleRefuses(c, s)
       \/ ProbeMode(c, s) \/ ProbeModeRefuses(c, s)
  \/ \E r \in Roles : AlterRole(r)
  \/ Promote
  \/ Demote

Spec == Init /\ [][Next]_vars

-----------------------------------------------------------------------------
(* Properties.                                                              *)

\* Every variable keeps its type, and only a pool in use has sessions: an
\* error of connect leaves none behind in the database.
TypeOK ==
  /\ at \in [Contexts -> {"stopped"} \cup Open \cup Errors]
  /\ role \in [Contexts -> Roles \cup {NoRole}]
  /\ query \in [Contexts -> Queries \cup {NoQuery}]
  /\ pool \in [Contexts -> [Slots -> SessionRecords \cup {NoSession}]]
  /\ catalog \in [Roles -> RoleRecords]
  /\ recovery \in BOOLEAN
  /\ changed \in [Contexts -> SUBSET Aspects]
  /\ \A c \in Contexts :
       /\ at[c] \in Open => role[c] \in Roles /\ query[c] \in Queries
       /\ Sessions(c) # {} => at[c] \in {"role", "mode", "admitted"}

\* The role probe of one session speaks for the pool: as long as nobody alters
\* the role, every session of an admitted process acts as the expected role in
\* the expected database, and that role has none of the powers, also the
\* sessions opened later and also if the two probes ran on two sessions.
RoleIsProved ==
  \A c \in Contexts :
    at[c] = "admitted" /\ "identity" \notin changed[c] =>
      /\ catalog[role[c]].safe
      /\ ~query[c].other
      /\ \A s \in Sessions(c) : ~pool[c][s].assumes

\* The same of the mode: unless the role's default or the server's state has
\* changed since connect was called, every session of an admitted reader is
\* read-only and none of an admitted writer is, also those no probe has seen.
ModeIsProved ==
  \A c \in Contexts :
    at[c] = "admitted" /\ "mode" \notin changed[c] =>
      \A s \in Sessions(c) :
        ReadOnly(pool[c][s]) <=> c \in ReadContexts

\* One database_url never serves both planes: a web server and an API that have
\* the same one are not both admitted, unless something changed under one of
\* them.  (The role alone does not tell the planes apart: with options in one
\* URL, or different ones in both, a reader and a writer may share it.)
PlanesAreSeparate ==
  \A r \in ReadContexts, w \in WriteContexts :
    /\ at[r] = "admitted" /\ at[w] = "admitted"
    /\ "mode" \notin changed[r] \cup changed[w]
    => <<role[r], query[r]>> # <<role[w], query[w]>>

\* "Connects and proves that the admin API credential is write-capable": the
\* role of an admitted writer may insert.  (Refuted: only the transaction mode
\* is probed, and no privilege on a table.)
WriterCanWrite ==
  \A w \in WriteContexts :
    at[w] = "admitted" => catalog[role[w]].inserts

=============================================================================
