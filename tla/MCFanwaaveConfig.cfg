\* A start that has ended takes no further step.
CHECK_DEADLOCK FALSE
CONSTANTS
  Names = {"database_url", "bind_addr", "Bind-Addr"}
  WellFormedNames = {"database_url", "bind_addr"}
  Keys = {"DATABASE_URL", "BIND_ADDR", "bind.addr"}
  WellFormedKeys = {"DATABASE_URL", "BIND_ADDR"}
  None = None
  Configs <- MCConfigs
  Contracts <- MCContracts
SPECIFICATION Spec
INVARIANTS
  TypeOK
  SecretsOnlyFromEnvironment
  ResolverAgreesWithMerge
  ReadyIsComplete
  RolesAreSafe
