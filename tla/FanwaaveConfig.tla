--------------------------- MODULE FanwaaveConfig ---------------------------
(***************************************************************************)
(* The start of a Fanwaave process: resolve_fanwaave_config_from_argv_at   *)
(* (src/fanwaave_flags2env.rs) and what it calls in src/fanwaave_config.rs *)
(* and in the flags-2-env runtime.  Its inputs come from four places: the  *)
(* parsed .fanwaave-cfg.toml, the process environment, argv, and the flags *)
(* contract .cli-flags.toml, which the runtime reads twice, to audit it    *)
(* and to parse argv by it.  Somebody may replace that file in between.    *)
(*                                                                         *)
(* A raw value is one of three: the empty string, a text that only a       *)
(* binding of kind "string" accepts, and a text every kind accepts.  The   *)
(* kinds other than "string" differ only in their parsers, and "url"       *)
(* stands for them.  The environment is a function from keys to values.    *)
(***************************************************************************)
EXTENDS Naturals, Sequences

CONSTANTS
  Names, WellFormedNames,  \* binding names; those is_binding_name admits
  Keys, WellFormedKeys,    \* environment keys; those is_environment_key admits
  Configs,                 \* the parsed configuration files to start from
  Contracts,               \* the versions of the contract file, see ContractType
  None                     \* no value, no reference, no section

Values == {"", "text", "valid"}
Kinds == {"string", "url"}
Sources == {"argv", "environment", "default"}

\* The environment and argv.  What they have for an ill-formed key never counts,
\* for no valid configuration refers to one.
Maps == [WellFormedKeys -> Values \cup {None}]

Bindings ==
  [name : Names, key : Keys, kind : Kinds, required : BOOLEAN,
   secret : BOOLEAN, default : Values \cup {None}]

\* What validate_fanwaave_config demands of the binding a field refers to.
Fields == {"api_base_url", "tenant_id", "auth_token",
           "bind_addr", "database_url", "push_provider"}
KindOf(field) == IF field \in {"api_base_url", "database_url"} THEN "url"
                                                               ELSE "string"
Sensitive == {"auth_token", "database_url"}

Modes == {"client", "server", "hybrid"}

ASSUME ConfigsAssumption ==
  \A c \in Configs :
    /\ c.mode \in Modes
    /\ c.env \in Seq(Bindings)
    /\ \A section \in {c.client, c.server} \ {None} : DOMAIN section.refs \subseteq Fields

\* A .cli-flags.toml: the keys it has flags for, and whether the audit of the
\* flags-2-env runtime passes it.
ContractType == [flags : SUBSET WellFormedKeys, sound : BOOLEAN]

ASSUME ContractsAssumption == Contracts \subseteq ContractType

\* What the process gets to see of a binding, and where it came from.
ResolvedBindings ==
  [key : WellFormedKeys, value : Values, source : Sources, secret : BOOLEAN]

ASSUME NoneAssumption == None \notin Values \cup ResolvedBindings

VARIABLES
  config,     \* FanwaaveConfig
  ambient,    \* the process environment
  argv,       \* the values argv gives, by the key of their flag
  contract,   \* the contract file now
  stage,      \* where the start is; "failed": it returned an error
  overrides,  \* argv_overrides
  next,       \* the binding of config.env the resolver is at
  values      \* the resolved bindings, by name

inputs == <<config, ambient, argv>>
vars == <<config, ambient, argv, contract, stage, overrides, next, values>>

-----------------------------------------------------------------------------
(* validate_fanwaave_config                                                *)

EnvOf(c) == {c.env[i] : i \in DOMAIN c.env}

ValidHeader(c) == c.version = 1 /\ c.strict /\ c.require_audit /\ c.canonical_contract

ValidBindings(c) ==
  /\ \A b \in EnvOf(c) : /\ b.name \in WellFormedNames
                         /\ b.key \in WellFormedKeys
                         /\ ~(b.secret /\ b.default # None)
  /\ \A i, j \in DOMAIN c.env : i # j => /\ c.env[i].name # c.env[j].name
                                         /\ c.env[i].key # c.env[j].key

Enabled(section) == section # None /\ section.enabled

\* (The first form is faulty: the roles of two modes are swapped.)
ValidModeSwapped(c) ==
  /\ Enabled(c.client) <=> c.mode \in {"server", "hybrid"}
  /\ Enabled(c.server) <=> c.mode \in {"client", "hybrid"}
ValidMode(c) ==
  /\ Enabled(c.client) <=> c.mode \in {"client", "hybrid"}
  /\ Enabled(c.server) <=> c.mode \in {"server", "hybrid"}

\* (Faulty: a sensitive field may refer to a binding that is no secret.)
ReferenceNeedsNoSecret(c, section, field) ==
  section.refs[field] # None =>
    \E b \in EnvOf(c) : b.name = section.refs[field] /\ b.kind = KindOf(field)

\* A section may leave a field out; a section that is there is checked whether
\* or not it is enabled.
ValidReference(c, section, field) ==
  section.refs[field] # None =>
    \E b \in EnvOf(c) : /\ b.name = section.refs[field]
                        /\ b.kind = KindOf(field)
                        /\ field \in Sensitive => b.secret

ValidReferences(c) ==
  \A section \in {c.client, c.server} \ {None} :
    \A field \in DOMAIN section.refs : ValidReference(c, section, field)

Valid(c) == ValidHeader(c) /\ ValidBindings(c) /\ ValidMode(c) /\ ValidReferences(c)

-----------------------------------------------------------------------------
(* resolve_fanwaave_config                                                 *)

\* (Faulty: a secret may come from argv.)
RejectedNever(b) == FALSE
RejectedFromArgv(b) == b.secret /\ overrides[b.key] # None

\* (Faulty: the environment comes first.)
LookupEnvironmentFirst(b) ==
  CASE ambient[b.key] # None -> [value |-> ambient[b.key], source |-> "environment"]
    [] ambient[b.key] = None /\ overrides[b.key] # None ->
         [value |-> overrides[b.key], source |-> "argv"]
    [] ambient[b.key] = None /\ overrides[b.key] = None ->
         [value |-> b.default, source |-> "default"]

\* The first layer that has the key wins, also with an empty value.
Lookup(b) ==
  CASE overrides[b.key] # None -> [value |-> overrides[b.key], source |-> "argv"]
    [] overrides[b.key] = None /\ ambient[b.key] # None ->
         [value |-> ambient[b.key], source |-> "environment"]
    [] overrides[b.key] = None /\ ambient[b.key] = None ->
         [value |-> b.default, source |-> "default"]

\* (Faulty: an empty value satisfies a required binding.)
MissingOnlyIfAbsent(b) == b.required /\ Lookup(b).value = None
Missing(b) == b.required /\ Lookup(b).value \in {None, ""}

\* coerce_value
Coerces(b) == b.kind = "string" \/ Lookup(b).value = "valid"

\* merge_environment, which callers use for the environment of a child process.
Merged == [k \in WellFormedKeys |-> IF overrides[k] # None THEN overrides[k] ELSE ambient[k]]
-----------------------------------------------------------------------------
Init ==
  /\ config \in Configs
  /\ ambient \in Maps
  /\ argv \in Maps
  /\ contract \in Contracts
  /\ stage = "start"
  /\ overrides = [k \in WellFormedKeys |-> None]
  /\ next = 1
  /\ values = [n \in Names |-> None]

\* Every error ends the start.
FailAt(s) ==
  /\ stage = s
  /\ stage' = "failed"
  /\ UNCHANGED <<inputs, contract, overrides, next, values>>

Validate ==
  /\ stage = "start"
  /\ Valid(config)
  /\ stage' = "audit"
  /\ UNCHANGED <<inputs, contract, overrides, next, values>>

ValidateFails == ~Valid(config) /\ FailAt("start")

Audit ==
  /\ stage = "audit"
  /\ contract.sound
  /\ stage' = "parse"
  /\ UNCHANGED <<inputs, contract, overrides, next, values>>

AuditFails == ~contract.sound /\ FailAt("audit")

\* Every flag of argv is one the contract has: no unknown options, no errors.
ArgvKnown == \A k \in WellFormedKeys : argv[k] # None => k \in contract.flags

Parse ==
  /\ stage = "parse"
  /\ ArgvKnown
  /\ overrides' = argv
  /\ stage' = "resolve"
  /\ UNCHANGED <<inputs, contract, next, values>>

ParseFails == ~ArgvKnown /\ FailAt("parse")

Current == config.env[next]

ResolvedBinding(b, found) ==
  [key |-> b.key, value |-> found.value, source |-> found.source, secret |-> b.secret]

\* (Faulty: a binding nobody gives a value is resolved to nothing, not skipped.)
ResolveBindingWithoutSkip ==
  /\ stage = "resolve"
  /\ next <= Len(config.env)
  /\ ~RejectedFromArgv(Current)
  /\ ~Missing(Current)
  /\ Coerces(Current)
  /\ values' = [values EXCEPT ![Current.name] = ResolvedBinding(Current, Lookup(Current))]
  /\ next' = next + 1
  /\ UNCHANGED <<inputs, contract, stage, overrides>>

ResolveBinding ==
  /\ stage = "resolve"
  /\ next <= Len(config.env)
  /\ ~RejectedFromArgv(Current)
  /\ ~Missing(Current)
  /\ LET found == Lookup(Current) IN
       \/ /\ found.value = None
          /\ values' = values
       \/ /\ found.value # None
          /\ Coerces(Current)
          /\ values' = [values EXCEPT ![Current.name] = ResolvedBinding(Current, found)]
  /\ next' = next + 1
  /\ UNCHANGED <<inputs, contract, stage, overrides>>

\* The error drops the map of values.
ResolveFails ==
  /\ stage = "resolve"
  /\ next <= Len(config.env)
  /\ \/ RejectedFromArgv(Current)
     \/ Missing(Current)
     \/ Lookup(Current).value # None /\ ~Coerces(Current)
  /\ stage' = "failed"
  /\ values' = [n \in Names |-> None]
  /\ UNCHANGED <<inputs, contract, overrides, next>>

Finish ==
  /\ stage = "resolve"
  /\ next > Len(config.env)
  /\ stage' = "ready"
  /\ UNCHANGED <<inputs, contract, overrides, next, values>>

\* Somebody replaces the contract file.
EditContract ==
  /\ stage \in {"start", "audit", "parse"}
  /\ contract' \in Contracts
  /\ UNCHANGED <<inputs, stage, overrides, next, values>>

Next ==
  \/ Validate \/ ValidateFails
  \/ Audit \/ AuditFails
  \/ Parse \/ ParseFails
  \/ ResolveBinding \/ ResolveFails \/ Finish
  \/ EditContract

Spec == Init /\ [][Next]_vars

-----------------------------------------------------------------------------
(* Properties                                                              *)

TypeOK ==
  /\ config \in Configs
  /\ ambient \in Maps /\ argv \in Maps /\ overrides \in Maps
  /\ contract \in Contracts
  /\ stage \in {"start", "audit", "parse", "resolve", "ready", "failed"}
  /\ next \in 1 .. Len(config.env) + 1
  /\ values \in [Names -> ResolvedBindings \cup {None}]

\* Secret bindings remain environment-only (fanwaave_flags2env.rs:76-77), from
\* the first binding resolved on and whatever the flags contract says, and the
\* value of a secret is in no binding that is not one.
SecretsOnlyFromEnvironment ==
  \A b \in EnvOf(config) :
    b.secret /\ values[b.name] # None =>
      /\ values[b.name].source = "environment"
      /\ values[b.name].value = ambient[b.key]
      /\ values[b.name].secret
      /\ \A n \in Names \ {b.name} : values[n] # None => values[n].key # b.key

\* merge_environment and the resolver agree on the precedence of argv and
\* environment: a process that is ready holds for every binding what the merged
\* environment has for its key, the default only where that has nothing, and
\* no value at all only where there is no default either.
ResolverAgreesWithMerge ==
  stage = "ready" =>
    \A b \in EnvOf(config) :
      IF Merged[b.key] = None /\ b.default = None
      THEN values[b.name] = None
      ELSE /\ values[b.name] # None
           /\ values[b.name].key = b.key
           /\ IF Merged[b.key] = None
              THEN values[b.name].value = b.default /\ values[b.name].source = "default"
              ELSE values[b.name].value = Merged[b.key] /\ values[b.name].source # "default"

\* A ready process has every required value, none of them empty, and nothing in
\* argv went unnoticed: each override has a value the resolver did take, if a
\* binding has its key.
ReadyIsComplete ==
  stage = "ready" =>
    \A b \in EnvOf(config) :
      /\ b.required => values[b.name] # None /\ values[b.name].value # ""
      /\ argv[b.key] # None => values[b.name] # None /\ values[b.name].source = "argv"

\* The roles of a ready process are those its mode names: a client has no server
\* section enabled, a server no client section, a hybrid has both.  What its
\* sections refer to is a binding, where the field is sensitive one whose value
\* came from the environment alone.
RolesAreSafe ==
  stage = "ready" =>
    /\ config.mode = "client" => Enabled(config.client) /\ ~Enabled(config.server)
    /\ config.mode = "server" => Enabled(config.server) /\ ~Enabled(config.client)
    /\ config.mode = "hybrid" => Enabled(config.client) /\ Enabled(config.server)
    /\ \A section \in {config.client, config.server} \ {None} :
         \A field \in DOMAIN section.refs :
           LET n == section.refs[field] IN
             n # None =>
               /\ \E b \in EnvOf(config) : b.name = n
               /\ field \in Sensitive /\ values[n] # None =>
                    values[n].source = "environment" /\ argv[values[n].key] = None
=============================================================================
