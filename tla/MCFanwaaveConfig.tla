-------------------------- MODULE MCFanwaaveConfig --------------------------
\* The start of a process over a chosen set of configuration files: each varies
\* one part of a valid one, so that every check of the validation is reached.
EXTENDS FanwaaveConfig

Binding(n, k) ==
  [name |-> n, key |-> k, kind |-> "string", required |-> FALSE,
   secret |-> FALSE, default |-> None]

DatabaseUrl == [Binding("database_url", "DATABASE_URL") EXCEPT
                  !.kind = "url", !.required = TRUE, !.secret = TRUE]
BindAddr == [Binding("bind_addr", "BIND_ADDR") EXCEPT !.default = "text"]

ClientRefs == [api_base_url |-> None, tenant_id |-> "bind_addr", auth_token |-> None]
ServerRefs == [bind_addr |-> "bind_addr", database_url |-> "database_url",
               push_provider |-> None]

Server ==
  [version |-> 1, strict |-> TRUE, require_audit |-> TRUE, canonical_contract |-> TRUE,
   mode |-> "server", env |-> <<DatabaseUrl, BindAddr>>,
   client |-> None, server |-> [enabled |-> TRUE, refs |-> ServerRefs]]

Sections(refs) == {None} \cup [enabled : BOOLEAN, refs : {refs}]

MCConfigs ==
  \* the header
  {[Server EXCEPT !.version = 2], [Server EXCEPT !.strict = FALSE],
   [Server EXCEPT !.require_audit = FALSE], [Server EXCEPT !.canonical_contract = FALSE]}
  \* the mode and the sections
  \cup {[Server EXCEPT !.mode = m, !.client = c, !.server = s] :
          m \in Modes, c \in Sections(ClientRefs), s \in Sections(ServerRefs)}
  \* the first binding, which the server refers to as its database URL
  \cup {[Server EXCEPT !.env[1] = [DatabaseUrl EXCEPT
             !.kind = k, !.required = r, !.secret = x, !.default = d]] :
          k \in Kinds, r \in BOOLEAN, x \in BOOLEAN, d \in {None, "", "valid"}}
  \* the second binding, in conflict with the first, ill-formed, required or not,
  \* and a first one nothing refers to
  \cup {[Server EXCEPT !.env[2] = b, !.server.refs = [ServerRefs EXCEPT
             !.database_url = d, !.bind_addr = a]] :
          b \in {Binding("database_url", "BIND_ADDR"), Binding("bind_addr", "DATABASE_URL"),
                 Binding("Bind-Addr", "BIND_ADDR"), Binding("bind_addr", "bind.addr"),
                 [BindAddr EXCEPT !.required = TRUE], [BindAddr EXCEPT !.default = None]},
          d \in {None, "database_url"}, a \in {None, "bind_addr"}}

\* A contract with every flag, one without a flag for the database URL, and one
\* the audit refuses.
MCContracts ==
  {[flags |-> WellFormedKeys, sound |-> TRUE], [flags |-> {"BIND_ADDR"}, sound |-> TRUE],
   [flags |-> WellFormedKeys, sound |-> FALSE]}
=============================================================================
