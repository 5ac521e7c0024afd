------------------------ MODULE FanwaaveConfigProofs ------------------------
(***************************************************************************)
(* The invariants of FanwaaveConfig, for any configuration file,           *)
(* environment, argv and contracts, and any number of bindings.            *)
(***************************************************************************)
EXTENDS FanwaaveConfig, TLAPS

\* The file is validated before anything else is read, and nothing is resolved
\* before argv is parsed or kept after an error.
Staged ==
  /\ stage \notin {"start", "failed"} => Valid(config)
  /\ stage \in {"start", "audit", "parse"} => next = 1
  /\ stage \notin {"resolve", "ready"} => \A n \in Names : values[n] = None
  /\ stage \in {"resolve", "ready"} => overrides = argv
  /\ stage = "ready" => next = Len(config.env) + 1

\* The bindings before next passed each check and have what Lookup finds; the
\* others have nothing, and no name but that of a binding has anything.
Resolved(i) ==
  LET b == config.env[i] IN
    /\ ~RejectedFromArgv(b) /\ ~Missing(b)
    /\ values[b.name] = IF Lookup(b).value = None THEN None
                                                 ELSE ResolvedBinding(b, Lookup(b))

ResolvedSoFar ==
  stage \in {"resolve", "ready"} =>
    /\ \A i \in 1 .. Len(config.env) : i < next => Resolved(i)
    /\ \A n \in Names : values[n] # None =>
         \E i \in 1 .. Len(config.env) : i < next /\ config.env[i].name = n

IInv == TypeOK /\ Staged /\ ResolvedSoFar
-----------------------------------------------------------------------------
(* Configurations and lookups.                                              *)

\* The bindings of a configuration, and that its names and keys tell the
\* bindings of a valid one apart.
LEMMA EnvFacts ==
  ASSUME IInv
  PROVE  /\ config.env \in Seq(Bindings)
         /\ config.mode \in Modes
         /\ Len(config.env) \in Nat
         /\ DOMAIN config.env = 1 .. Len(config.env)
         /\ \A i \in 1 .. Len(config.env) : config.env[i] \in Bindings
         /\ EnvOf(config) = {config.env[i] : i \in 1 .. Len(config.env)}
<1>1. config \in Configs
  BY DEF IInv, TypeOK
<1>2. config.env \in Seq(Bindings) /\ config.mode \in Modes
  BY <1>1, ConfigsAssumption
<1> QED
  BY <1>2 DEF EnvOf

LEMMA ValidFacts ==
  ASSUME IInv, stage \notin {"start", "failed"}
  PROVE  /\ \A i \in 1 .. Len(config.env) :
              /\ config.env[i].key \in WellFormedKeys
              /\ config.env[i].secret => config.env[i].default = None
         /\ \A i, j \in 1 .. Len(config.env) : i # j =>
              /\ config.env[i].name # config.env[j].name
              /\ config.env[i].key # config.env[j].key
<1>1. ValidBindings(config)
  BY DEF IInv, Staged, Valid
<1>2. \A i \in 1 .. Len(config.env) : config.env[i] \in EnvOf(config)
  BY EnvFacts
<1> QED
  BY <1>1, <1>2, EnvFacts DEF ValidBindings

\* What a lookup finds, and where.
LEMMA LookupFacts ==
  ASSUME NEW b \in Bindings, b.key \in WellFormedKeys,
         overrides \in Maps, ambient \in Maps
  PROVE  /\ Lookup(b).value \in Values \cup {None}
         /\ Lookup(b).source \in Sources
         /\ overrides[b.key] # None =>
              Lookup(b).value = overrides[b.key] /\ Lookup(b).source = "argv"
         /\ overrides[b.key] = None /\ ambient[b.key] # None =>
              Lookup(b).value = ambient[b.key] /\ Lookup(b).source = "environment"
         /\ overrides[b.key] = None /\ ambient[b.key] = None =>
              Lookup(b).value = b.default /\ Lookup(b).source = "default"
<1>1. /\ overrides[b.key] \in Values \cup {None}
      /\ ambient[b.key] \in Values \cup {None}
      /\ b.default \in Values \cup {None}
  BY DEF Maps, Bindings
<1>2. CASE overrides[b.key] # None
  BY <1>1, <1>2 DEF Lookup, Sources
<1>3. CASE overrides[b.key] = None /\ ambient[b.key] # None
  BY <1>1, <1>3 DEF Lookup, Sources
<1>4. CASE overrides[b.key] = None /\ ambient[b.key] = None
  BY <1>1, <1>4 DEF Lookup, Sources
<1> QED
  BY <1>2, <1>3, <1>4

\* What is resolved is typed, and something.
LEMMA ResolvedBindingType ==
  ASSUME NEW b \in Bindings, b.key \in WellFormedKeys,
         overrides \in Maps, ambient \in Maps, Lookup(b).value # None
  PROVE  /\ ResolvedBinding(b, Lookup(b)) \in ResolvedBindings
         /\ ResolvedBinding(b, Lookup(b)) # None
<1>1. Lookup(b).value \in Values /\ Lookup(b).source \in Sources
  BY LookupFacts
<1>2. b.secret \in BOOLEAN
  BY DEF Bindings
<1>3. ResolvedBinding(b, Lookup(b)) \in ResolvedBindings
  BY <1>1, <1>2 DEF ResolvedBinding, ResolvedBindings
<1> QED
  BY <1>3, NoneAssumption
-----------------------------------------------------------------------------
(* The steps.                                                               *)

LEMMA InitIInv == Init => IInv
<1> SUFFICES ASSUME Init PROVE IInv
  OBVIOUS
<1>1. config.env \in Seq(Bindings)
  BY ConfigsAssumption DEF Init
<1>2. TypeOK
  BY <1>1 DEF Init, TypeOK, Maps
<1>3. Staged /\ ResolvedSoFar
  BY DEF Init, Staged, ResolvedSoFar
<1> QED
  BY <1>2, <1>3 DEF IInv

\* An error, or a new contract file, changes nothing that is resolved.
LEMMA FailStep ==
  ASSUME IInv, NEW s \in {"start", "audit", "parse"}, FailAt(s)
  PROVE  IInv'
BY DEF IInv, TypeOK, Staged, ResolvedSoFar, FailAt, inputs

LEMMA EditStep ==
  ASSUME IInv, EditContract
  PROVE  IInv'
BY DEF IInv, TypeOK, Staged, ResolvedSoFar, EditContract, inputs

LEMMA ValidateStep ==
  ASSUME IInv, Validate
  PROVE  IInv'
BY DEF IInv, TypeOK, Staged, ResolvedSoFar, Validate, inputs

LEMMA AuditStep ==
  ASSUME IInv, Audit
  PROVE  IInv'
BY DEF IInv, TypeOK, Staged, ResolvedSoFar, Audit, inputs

LEMMA ParseStep ==
  ASSUME IInv, Parse
  PROVE  IInv'
<1>1. TypeOK' /\ Staged'
  BY DEF IInv, TypeOK, Staged, Parse, inputs
<1>2. next = 1 /\ next' = next /\ config' = config /\ values' = values
      /\ \A n \in Names : values[n] = None
  BY DEF IInv, Staged, Parse, inputs
<1>3. ResolvedSoFar'
  BY <1>2 DEF ResolvedSoFar
<1> QED
  BY <1>1, <1>3 DEF IInv

\* Each binding writes its own name and no other.
LEMMA ResolveStep ==
  ASSUME IInv, ResolveBinding
  PROVE  IInv'
<1> DEFINE found == Lookup(Current)
<1>1. /\ stage = "resolve" /\ next \in 1 .. Len(config.env)
      /\ next' = next + 1
      /\ UNCHANGED <<config, ambient, argv, contract, stage, overrides>>
      /\ ~RejectedFromArgv(Current) /\ ~Missing(Current)
  BY EnvFacts DEF ResolveBinding, inputs, IInv, TypeOK
<1>2. /\ Current \in Bindings /\ Current.key \in WellFormedKeys
      /\ Current.name \in Names
  BY <1>1, EnvFacts, ValidFacts DEF Current, Bindings
<1>3. overrides \in Maps /\ ambient \in Maps
      /\ values \in [Names -> ResolvedBindings \cup {None}]
  BY DEF IInv, TypeOK
<1>4. values[Current.name] = None
  BY <1>1, <1>2, ValidFacts DEF IInv, ResolvedSoFar, Current
<1>5. values' = [values EXCEPT ![Current.name] =
                   IF found.value = None THEN None ELSE ResolvedBinding(Current, found)]
  <2>1. CASE found.value = None
    BY <1>2, <1>3, <1>4, <2>1 DEF ResolveBinding
  <2>2. CASE found.value # None
    BY <2>2 DEF ResolveBinding
  <2> QED
    BY <2>1, <2>2
<1>6. values' \in [Names -> ResolvedBindings \cup {None}]
  BY <1>2, <1>3, <1>5, ResolvedBindingType
<1>7. TypeOK'
  BY <1>1, <1>6, EnvFacts DEF IInv, TypeOK
<1>8. Staged'
  BY <1>1 DEF IInv, Staged
<1>9. ASSUME NEW i \in 1 .. Len(config.env), i < next'
      PROVE  Resolved(i)'
  <2>1. CASE i = next
    <3>1. config.env[i] = Current
      BY <2>1 DEF Current
    <3>2. values'[Current.name] = IF found.value = None THEN None
                                                        ELSE ResolvedBinding(Current, found)
      BY <1>2, <1>3, <1>5
    <3> QED
      BY <1>1, <3>1, <3>2 DEF Resolved, Lookup, ResolvedBinding, Missing, RejectedFromArgv
  <2>2. CASE i # next
    <3>1. i < next
      BY <1>1, <1>9, <2>2, EnvFacts
    <3>2. Resolved(i)
      BY <1>1, <3>1 DEF IInv, ResolvedSoFar
    <3>3. config.env[i].name # Current.name /\ config.env[i].name \in Names
      BY <1>1, <2>2, EnvFacts, ValidFacts DEF Current, Bindings
    <3>4. values'[config.env[i].name] = values[config.env[i].name]
      BY <1>3, <1>5, <3>3
    <3> QED
      BY <1>1, <3>2, <3>4 DEF Resolved, Lookup, ResolvedBinding, Missing, RejectedFromArgv
  <2> QED
    BY <2>1, <2>2
<1>10. ASSUME NEW n \in Names, values'[n] # None
       PROVE  \E i \in 1 .. Len(config.env) : i < next' /\ config.env[i].name = n
  <2>1. CASE n = Current.name
    BY <1>1, <2>1, EnvFacts DEF Current
  <2>2. CASE n # Current.name
    <3>1. values[n] # None
      BY <1>3, <1>5, <1>10, <2>2
    <3>2. PICK i \in 1 .. Len(config.env) : i < next /\ config.env[i].name = n
      BY <1>1, <3>1 DEF IInv, ResolvedSoFar
    <3> QED
      BY <1>1, <3>2, EnvFacts
  <2> QED
    BY <2>1, <2>2
<1>11. ResolvedSoFar'
  BY <1>1, <1>9, <1>10 DEF ResolvedSoFar
<1> QED
  BY <1>7, <1>8, <1>11 DEF IInv

LEMMA ResolveFailsStep ==
  ASSUME IInv, ResolveFails
  PROVE  IInv'
<1>1. values' = [n \in Names |-> None] /\ stage' = "failed"
      /\ UNCHANGED <<config, ambient, argv, contract, overrides, next>>
  BY DEF ResolveFails, inputs
<1> QED
  BY <1>1 DEF IInv, TypeOK, Staged, ResolvedSoFar

LEMMA FinishStep ==
  ASSUME IInv, Finish
  PROVE  IInv'
<1>1. /\ stage = "resolve" /\ stage' = "ready"
      /\ next = Len(config.env) + 1
      /\ UNCHANGED <<config, ambient, argv, contract, overrides, next, values>>
  BY EnvFacts DEF Finish, inputs, IInv, TypeOK
<1>2. TypeOK' /\ Staged'
  BY <1>1 DEF IInv, TypeOK, Staged
<1>3. ResolvedSoFar'
  BY <1>1 DEF IInv, ResolvedSoFar, Resolved, Lookup, ResolvedBinding, Missing, RejectedFromArgv
<1> QED
  BY <1>2, <1>3 DEF IInv

LEMMA StutterStep ==
  ASSUME IInv, UNCHANGED vars
  PROVE  IInv'
BY DEF vars, inputs, IInv, TypeOK, Staged, ResolvedSoFar, Resolved, Lookup, ResolvedBinding,
       Missing, RejectedFromArgv

LEMMA NextIInv == IInv /\ [Next]_vars => IInv'
<1> SUFFICES ASSUME IInv, [Next]_vars PROVE IInv'
  OBVIOUS
<1>1. CASE ValidateFails \/ AuditFails \/ ParseFails
  BY <1>1, FailStep DEF ValidateFails, AuditFails, ParseFails
<1>2. CASE Validate \/ Audit \/ Parse
  BY <1>2, ValidateStep, AuditStep, ParseStep
<1>3. CASE ResolveBinding \/ ResolveFails \/ Finish
  BY <1>3, ResolveStep, ResolveFailsStep, FinishStep
<1> QED
  BY <1>1, <1>2, <1>3, EditStep, StutterStep DEF Next

LEMMA Inductive == Spec => []IInv
BY InitIInv, NextIInv, PTL DEF Spec
-----------------------------------------------------------------------------
(* The theorems.                                                            *)

\* What the invariant says of one binding, once the resolver has passed it.
LEMMA Passed ==
  ASSUME IInv, stage \in {"resolve", "ready"},
         NEW i \in 1 .. Len(config.env), i < next,
         NEW b, b = config.env[i]
  PROVE  /\ b.secret => overrides[b.key] = None
         /\ b.required => Lookup(b).value \notin {None, ""}
         /\ Lookup(b).value = None => values[b.name] = None
         /\ Lookup(b).value # None =>
              /\ values[b.name] # None
              /\ values[b.name].key = b.key
              /\ values[b.name].value = Lookup(b).value
              /\ values[b.name].source = Lookup(b).source
              /\ b.secret => values[b.name].secret
<1>1. Resolved(i)
  BY DEF IInv, ResolvedSoFar
<1>2. b \in Bindings /\ b.key \in WellFormedKeys
  BY EnvFacts, ValidFacts
<1>3. b.secret => overrides[b.key] = None
  BY <1>1 DEF Resolved, RejectedFromArgv
<1>4. b.required => Lookup(b).value \notin {None, ""}
  BY <1>1 DEF Resolved, Missing
<1>5. Lookup(b).value = None => values[b.name] = None
  BY <1>1 DEF Resolved
<1>6. ASSUME Lookup(b).value # None
      PROVE  /\ values[b.name] # None
             /\ values[b.name].key = b.key
             /\ values[b.name].value = Lookup(b).value
             /\ values[b.name].source = Lookup(b).source
             /\ b.secret => values[b.name].secret
  <2>1. /\ values[b.name] # None
        /\ values[b.name] = ResolvedBinding(b, Lookup(b))
    BY <1>1, <1>2, <1>6, ResolvedBindingType DEF Resolved, IInv, TypeOK
  <2>2. b.secret => values[b.name].secret
    BY <2>1 DEF ResolvedBinding
  <2> QED
    BY <2>1, <2>2 DEF ResolvedBinding
<1> QED
  BY <1>3, <1>4, <1>5, <1>6

\* A binding that has a value has been passed.
LEMMA HasValue ==
  ASSUME IInv, NEW n \in Names, values[n] # None
  PROVE  /\ stage \in {"resolve", "ready"}
         /\ \E i \in 1 .. Len(config.env) : i < next /\ config.env[i].name = n
BY DEF IInv, TypeOK, Staged, ResolvedSoFar

\* Every variable keeps its type.
THEOREM TypeCorrect == Spec => []TypeOK
<1>1. IInv => TypeOK
  BY DEF IInv
<1> QED
  BY <1>1, Inductive, PTL

LEMMA SecretsLemma == IInv => SecretsOnlyFromEnvironment
<1> SUFFICES ASSUME IInv, NEW b \in EnvOf(config), b.secret, values[b.name] # None
             PROVE  /\ values[b.name].source = "environment"
                    /\ values[b.name].value = ambient[b.key]
                    /\ values[b.name].secret
                    /\ \A n \in Names \ {b.name} : values[n] # None => values[n].key # b.key
  BY DEF SecretsOnlyFromEnvironment
<1>1. PICK i \in 1 .. Len(config.env) : b = config.env[i]
  BY EnvFacts
<1>2. b \in Bindings /\ b.name \in Names
  BY <1>1, EnvFacts DEF Bindings
<1>3. /\ stage \in {"resolve", "ready"}
      /\ i < next
  <2>1. PICK j \in 1 .. Len(config.env) : j < next /\ config.env[j].name = b.name
    BY <1>2, HasValue
  <2>2. stage \in {"resolve", "ready"}
    BY <1>2, HasValue
  <2> QED
    BY <1>1, <2>1, <2>2, ValidFacts
<1>4. b.key \in WellFormedKeys /\ b.default = None
  BY <1>1, <1>3, ValidFacts
<1>5. overrides[b.key] = None /\ Lookup(b).value # None
      /\ values[b.name].value = Lookup(b).value
      /\ values[b.name].source = Lookup(b).source
      /\ values[b.name].secret
  BY <1>1, <1>3, Passed
<1>6. overrides \in Maps /\ ambient \in Maps
  BY DEF IInv, TypeOK
<1>7. Lookup(b).value = ambient[b.key] /\ Lookup(b).source = "environment"
  BY <1>2, <1>4, <1>5, <1>6, LookupFacts
<1>8. ASSUME NEW n \in Names \ {b.name}, values[n] # None
      PROVE  values[n].key # b.key
  <2>1. PICK j \in 1 .. Len(config.env) : j < next /\ config.env[j].name = n
    BY <1>8, HasValue
  <2>2. values[n].key = config.env[j].key
    BY <1>3, <1>8, <2>1, Passed
  <2>3. i # j
    BY <1>1, <1>8, <2>1
  <2> QED
    BY <1>1, <1>3, <2>2, <2>3, ValidFacts
<1> QED
  BY <1>5, <1>7, <1>8

\* A secret is taken from the environment alone, whatever argv and the flags
\* contract say, and no other binding holds its value.
THEOREM SecretsAreSafe == Spec => []SecretsOnlyFromEnvironment
BY SecretsLemma, Inductive, PTL

\* What a ready process holds for a binding.
LEMMA ReadyFacts ==
  ASSUME IInv, stage = "ready", NEW b \in EnvOf(config)
  PROVE  \E i \in 1 .. Len(config.env) : b = config.env[i] /\ i < next
<1>1. PICK i \in 1 .. Len(config.env) : b = config.env[i]
  BY EnvFacts
<1>2. next = Len(config.env) + 1 /\ Len(config.env) \in Nat
  BY EnvFacts DEF IInv, Staged
<1>3. i < next
  BY <1>2
<1> QED
  BY <1>1, <1>3

LEMMA MergeLemma == IInv => ResolverAgreesWithMerge
<1> SUFFICES ASSUME IInv, stage = "ready", NEW b \in EnvOf(config)
             PROVE  IF Merged[b.key] = None /\ b.default = None
                    THEN values[b.name] = None
                    ELSE /\ values[b.name] # None
                         /\ values[b.name].key = b.key
                         /\ IF Merged[b.key] = None
                            THEN /\ values[b.name].value = b.default
                                 /\ values[b.name].source = "default"
                            ELSE /\ values[b.name].value = Merged[b.key]
                                 /\ values[b.name].source # "default"
  BY DEF ResolverAgreesWithMerge
<1>1. PICK i \in 1 .. Len(config.env) : b = config.env[i] /\ i < next
  BY ReadyFacts
<1>2. b \in Bindings /\ b.key \in WellFormedKeys
  BY <1>1, EnvFacts, ValidFacts
<1>3. overrides \in Maps /\ ambient \in Maps
  BY DEF IInv, TypeOK
<1>4. Merged[b.key] = IF overrides[b.key] # None THEN overrides[b.key] ELSE ambient[b.key]
  BY <1>2 DEF Merged
<1>5. /\ Lookup(b).value = None => values[b.name] = None
      /\ Lookup(b).value # None =>
           /\ values[b.name] # None
           /\ values[b.name].key = b.key
           /\ values[b.name].value = Lookup(b).value
           /\ values[b.name].source = Lookup(b).source
  BY <1>1, Passed
<1>6. CASE overrides[b.key] # None
  BY <1>2, <1>3, <1>4, <1>5, <1>6, LookupFacts
<1>7. CASE overrides[b.key] = None /\ ambient[b.key] # None
  BY <1>2, <1>3, <1>4, <1>5, <1>7, LookupFacts
<1>8. CASE overrides[b.key] = None /\ ambient[b.key] = None
  BY <1>2, <1>3, <1>4, <1>5, <1>8, LookupFacts
<1> QED
  BY <1>6, <1>7, <1>8

\* The resolver and merge_environment give a process and its children the same
\* values.
THEOREM MergeIsFollowed == Spec => []ResolverAgreesWithMerge
BY MergeLemma, Inductive, PTL

LEMMA CompleteLemma == IInv => ReadyIsComplete
<1> SUFFICES ASSUME IInv, stage = "ready", NEW b \in EnvOf(config)
             PROVE  /\ b.required => values[b.name] # None /\ values[b.name].value # ""
                    /\ argv[b.key] # None =>
                         values[b.name] # None /\ values[b.name].source = "argv"
  BY DEF ReadyIsComplete
<1>1. PICK i \in 1 .. Len(config.env) : b = config.env[i] /\ i < next
  BY ReadyFacts
<1>2. b \in Bindings /\ b.key \in WellFormedKeys
  BY <1>1, EnvFacts, ValidFacts
<1>3. overrides \in Maps /\ ambient \in Maps /\ overrides = argv
  BY DEF IInv, TypeOK, Staged
<1>4. /\ b.required => Lookup(b).value \notin {None, ""}
      /\ Lookup(b).value # None =>
           /\ values[b.name] # None
           /\ values[b.name].value = Lookup(b).value
           /\ values[b.name].source = Lookup(b).source
  BY <1>1, Passed
<1>5. argv[b.key] # None =>
        Lookup(b).value = argv[b.key] /\ Lookup(b).source = "argv"
  BY <1>2, <1>3, LookupFacts
<1> QED
  BY <1>4, <1>5

\* A ready process has every required value, and every value of argv was taken.
THEOREM ReadyHasEverything == Spec => []ReadyIsComplete
BY CompleteLemma, Inductive, PTL

LEMMA RolesLemma == IInv => RolesAreSafe
<1> SUFFICES ASSUME IInv, stage = "ready"
             PROVE  RolesAreSafe
  BY DEF RolesAreSafe
<1>1. Valid(config)
  BY DEF IInv, Staged
<1>2. /\ config.mode = "client" => Enabled(config.client) /\ ~Enabled(config.server)
      /\ config.mode = "server" => Enabled(config.server) /\ ~Enabled(config.client)
      /\ config.mode = "hybrid" => Enabled(config.client) /\ Enabled(config.server)
  BY <1>1 DEF Valid, ValidMode
<1>3. ASSUME NEW section \in {config.client, config.server} \ {None},
             NEW field \in DOMAIN section.refs, section.refs[field] # None
      PROVE  /\ \E b \in EnvOf(config) : b.name = section.refs[field]
             /\ field \in Sensitive /\ values[section.refs[field]] # None =>
                  /\ values[section.refs[field]].source = "environment"
                  /\ argv[values[section.refs[field]].key] = None
  <2>1. ValidReference(config, section, field)
    BY <1>1, <1>3 DEF Valid, ValidReferences
  <2>2. PICK b \in EnvOf(config) : /\ b.name = section.refs[field]
                                   /\ field \in Sensitive => b.secret
    BY <1>3, <2>1 DEF ValidReference
  <2>3. ASSUME field \in Sensitive, values[b.name] # None
        PROVE  values[b.name].source = "environment" /\ argv[values[b.name].key] = None
    <3>1. PICK i \in 1 .. Len(config.env) : b = config.env[i] /\ i < next
      BY ReadyFacts
    <3>2. b.secret
      BY <2>2, <2>3
    <3>3. overrides[b.key] = None /\ values[b.name].key = b.key
      BY <2>3, <3>1, <3>2, Passed
    <3>4. overrides = argv
      BY DEF IInv, Staged
    <3>5. values[b.name].source = "environment"
      BY <2>3, <3>2, SecretsLemma DEF SecretsOnlyFromEnvironment
    <3> QED
      BY <3>3, <3>4, <3>5
  <2> QED
    BY <2>2, <2>3
<1> QED
  BY <1>2, <1>3 DEF RolesAreSafe

\* A ready process has the roles its mode names, and no other, and a sensitive
\* field refers to a value of the environment.
THEOREM RolesFitMode == Spec => []RolesAreSafe
BY RolesLemma, Inductive, PTL
=============================================================================
